---- MODULE Spec2Model ----
(***************************************************************************)
(* A model of the poached SQL-introspection extension: the comment         *)
(* stripper, the tokenizer bindings, the statement splitter and the table  *)
(* extractor, in the C binding (src/src/parser.c, src/src/tokenizer.cpp)   *)
(* and the C++ binding (src/src/parser.cpp).                               *)
(***************************************************************************)
EXTENDS Bags, FiniteSets, Integers, Sequences, TLC

VARIABLES
    sql,        \* the text handed to sql_strip_comments
    turn,       \* which of the two scanners takes the next step
    c,          \* StripComments (parser.c): loop state and result buffer
    cpp,        \* SqlStripCommentsFunc (parser.cpp): loop state and output
    c_lits,     \* history: string literals the C scanner opened and closed
    cpp_lits,   \* history: string literals the C++ scanner opened and closed
    idem,       \* results of applying the stripper once and twice
    binding,    \* the build in use: "c" (parser.c) or "cpp" (parser.cpp)
    tz,         \* what Parser::Tokenize does with the query
    tok,        \* tokenize_sql: bind data, cursor and the rows emitted
    px,         \* what the DuckDB parser and the scratch database do
    ps,         \* parse_statements: bind data, cursor and the rows emitted
    pq,         \* parse_tables: the parsed query and the scratch database
    pt,         \* parse_tables: bind data, cursor and the rows emitted
    tn,         \* parse_table_names: the list returned
    eq,         \* the expression extractors: the parsed query, the scratch database
    pf,         \* parse_functions: bind data, cursor and the rows emitted
    pw,         \* parse_where: bind data, cursor and the rows emitted
    pc,         \* parse_columns: bind data, cursor and the rows emitted
    ty,         \* parse_type_info: the column's type and the row emitted
    kw,         \* is_keyword: the argument and the result
    rs,         \* the scratch-database handles a call holds, and their releases
    sk,         \* sql_keywords: bind data, cursor and the rows emitted
    vs          \* is_valid_sql, sql_error_message, num_statements: the answers

stripVars == <<sql, turn, c, cpp, c_lits, cpp_lits, idem>>

tokVars == <<tz, tok>>

stmtVars == <<px, ps>>

tableVars == <<pq, pt, tn>>

exprVars == <<eq, pf, pw, pc>>

capiVars == <<ty, kw, rs, sk, vs>>

vars == <<sql, turn, c, cpp, c_lits, cpp_lits, idem, binding, tz, tok, px, ps,
          pq, pt, tn, eq, pf, pw, pc, ty, kw, rs, sk, vs>>

(***************************************************************************)
(* Bounds                                                                  *)
(***************************************************************************)
MaxLen == 4         \* longest text scanned step by step

IdemLen == 6        \* longest text stripped twice

MaxTokens == 2      \* most tokens of a tokenized query

VectorSize == 1     \* rows a scan call may emit (STANDARD_VECTOR_SIZE)

MaxExtraCalls == 1  \* scan calls made after the call that returned no row

MaxStmts == 2       \* most statements of a parsed query

MaxJoins == 3       \* most joins of a left-deep join chain

MaxCtes == 2        \* most CTE definitions attached to a query node

MaxItems == 2       \* most items of a SELECT list

MaxColumns == 3     \* most items of a SELECT list given to parse_columns

MaxFields == 24     \* most fields of a STRUCT, members of a UNION

MaxEnum == 12       \* most values of an ENUM dictionary

MaxRows == 2        \* most rows of the chunk a scalar function is given

LineLen == 7        \* longest text whose lines are counted

MaxKeywords == 3    \* most keywords Parser::KeywordList returns

(***************************************************************************)
(* Texts                                                                   *)
(***************************************************************************)
NUL == "NUL"        \* the char 0 of `next` at the end of the input

Chars == {"-", "/", "*", "'", "\"", "\n", "x"}

Texts(n) == UNION {[1..k -> Chars] : k \in 0..n}

(***************************************************************************)
(* sql_strip_comments, C binding: StripComments                            *)
(***************************************************************************)
StripCommentsInit ==
    [pc |-> "loop", i |-> 0, result |-> <<>>,
     in_string |-> FALSE, string_char |-> NUL,
     in_line_comment |-> FALSE, in_block_comment |-> FALSE]

\* The branches of one iteration of the for loop, the i++ of the loop header
\* included. text[s.i + 1] is sql[i].
StripCommentsLineComment(s, text) ==
    IF text[s.i + 1] = "\n"
    THEN [s EXCEPT !.in_line_comment = FALSE,
                   !.result = Append(@, text[s.i + 1]), !.i = @ + 1]
    ELSE [s EXCEPT !.i = @ + 1]

StripCommentsBlockComment(s, text) ==
    IF text[s.i + 1] = "*" /\ s.i + 1 < Len(text) /\ text[s.i + 2] = "/"
    THEN [s EXCEPT !.in_block_comment = FALSE, !.i = @ + 2]
    ELSE [s EXCEPT !.i = @ + 1]

\* A variant that opens a string without noting which quote opened it.
StripCommentsNormal_nochar(s, text) ==
    LET ch == text[s.i + 1]
        has_next == s.i + 1 < Len(text)
    IN  IF ch = "'" \/ ch = "\""
        THEN [s EXCEPT !.in_string = TRUE,
                       !.result = Append(@, ch), !.i = @ + 1]
        ELSE IF ch = "-" /\ has_next /\ text[s.i + 2] = "-"
        THEN [s EXCEPT !.in_line_comment = TRUE, !.i = @ + 2]
        ELSE IF ch = "/" /\ has_next /\ text[s.i + 2] = "*"
        THEN [s EXCEPT !.in_block_comment = TRUE, !.i = @ + 2]
        ELSE [s EXCEPT !.result = Append(@, ch), !.i = @ + 1]

\* A variant that steps over the / of a block-comment opener only, so that
\* the * of the opener can also be the * of a closer.
StripCommentsNormal_reusestar(s, text) ==
    LET ch == text[s.i + 1]
        has_next == s.i + 1 < Len(text)
    IN  IF ch = "'" \/ ch = "\""
        THEN [s EXCEPT !.in_string = TRUE, !.string_char = ch,
                       !.result = Append(@, ch), !.i = @ + 1]
        ELSE IF ch = "-" /\ has_next /\ text[s.i + 2] = "-"
        THEN [s EXCEPT !.in_line_comment = TRUE, !.i = @ + 2]
        ELSE IF ch = "/" /\ has_next /\ text[s.i + 2] = "*"
        THEN [s EXCEPT !.in_block_comment = TRUE, !.i = @ + 1]
        ELSE [s EXCEPT !.result = Append(@, ch), !.i = @ + 1]

\* A variant that copies both quotes of a doubled quote but steps over the
\* first only.
StripCommentsString_noskip(s, text) ==
    IF text[s.i + 1] = s.string_char THEN
        IF s.i + 1 < Len(text) /\ text[s.i + 2] = s.string_char
        THEN [s EXCEPT !.result = @ \o <<text[s.i + 1], text[s.i + 2]>>,
                       !.i = @ + 1]
        ELSE [s EXCEPT !.result = Append(@, text[s.i + 1]),
                       !.in_string = FALSE, !.i = @ + 1]
    ELSE [s EXCEPT !.result = Append(@, text[s.i + 1]), !.i = @ + 1]

\* A variant that takes the second quote of a doubled quote for the end of
\* the string.
StripCommentsString_noescape(s, text) ==
    IF text[s.i + 1] = s.string_char
    THEN [s EXCEPT !.result = Append(@, text[s.i + 1]),
                   !.in_string = FALSE, !.i = @ + 1]
    ELSE [s EXCEPT !.result = Append(@, text[s.i + 1]), !.i = @ + 1]

StripCommentsString(s, text) ==
    IF text[s.i + 1] = s.string_char THEN
        IF s.i + 1 < Len(text) /\ text[s.i + 2] = s.string_char
        THEN [s EXCEPT !.result = @ \o <<text[s.i + 1], text[s.i + 2]>>,
                       !.i = @ + 2]
        ELSE [s EXCEPT !.result = Append(@, text[s.i + 1]),
                       !.in_string = FALSE, !.i = @ + 1]
    ELSE [s EXCEPT !.result = Append(@, text[s.i + 1]), !.i = @ + 1]

StripCommentsNormal(s, text) ==
    LET ch == text[s.i + 1]
        has_next == s.i + 1 < Len(text)
    IN  IF ch = "'" \/ ch = "\""
        THEN [s EXCEPT !.in_string = TRUE, !.string_char = ch,
                       !.result = Append(@, ch), !.i = @ + 1]
        ELSE IF ch = "-" /\ has_next /\ text[s.i + 2] = "-"
        THEN [s EXCEPT !.in_line_comment = TRUE, !.i = @ + 2]
        ELSE IF ch = "/" /\ has_next /\ text[s.i + 2] = "*"
        THEN [s EXCEPT !.in_block_comment = TRUE, !.i = @ + 2]
        ELSE [s EXCEPT !.result = Append(@, ch), !.i = @ + 1]

StripCommentsBody(s, text) ==
    IF s.in_line_comment THEN StripCommentsLineComment(s, text)
    ELSE IF s.in_block_comment THEN StripCommentsBlockComment(s, text)
    ELSE IF s.in_string THEN StripCommentsString(s, text)
    ELSE StripCommentsNormal(s, text)

RECURSIVE StripCommentsLoop(_, _)
StripCommentsLoop(s, text) ==
    IF s.i < Len(text) THEN StripCommentsLoop(StripCommentsBody(s, text), text)
    ELSE s

\* The whole function: the text up to the terminating NUL written at result[j].
StripComments(text) == StripCommentsLoop(StripCommentsInit, text).result

(***************************************************************************)
(* sql_strip_comments, C++ binding: the lambda of SqlStripCommentsFunc     *)
(***************************************************************************)
SqlStripCommentsInit ==
    [pc |-> "loop", i |-> 0, output |-> <<>>,
     in_line_comment |-> FALSE, in_block_comment |-> FALSE,
     in_string |-> FALSE, string_char |-> NUL]

\* next: the character after input[i], or 0 at the end of the input.
SqlStripNext(s, input) ==
    IF s.i + 1 < Len(input) THEN input[s.i + 2] ELSE NUL

\* The branches of one iteration of the for loop, the i++ of the loop header
\* included. input[s.i + 1] is input[i].
\* A variant that drops the newline that ends a line comment.
SqlStripLineComment_dropnewline(s, input) ==
    IF input[s.i + 1] = "\n"
    THEN [s EXCEPT !.in_line_comment = FALSE, !.i = @ + 1]
    ELSE [s EXCEPT !.i = @ + 1]

SqlStripLineComment(s, input) ==
    IF input[s.i + 1] = "\n"
    THEN [s EXCEPT !.in_line_comment = FALSE,
                   !.output = Append(@, input[s.i + 1]), !.i = @ + 1]
    ELSE [s EXCEPT !.i = @ + 1]

SqlStripBlockComment(s, input) ==
    IF input[s.i + 1] = "*" /\ SqlStripNext(s, input) = "/"
    THEN [s EXCEPT !.in_block_comment = FALSE, !.i = @ + 2]
    ELSE [s EXCEPT !.i = @ + 1]

SqlStripString(s, input) ==
    IF input[s.i + 1] = s.string_char
       /\ (s.i + 1 >= Len(input) \/ input[s.i + 2] # s.string_char)
    THEN [s EXCEPT !.output = Append(@, input[s.i + 1]),
                   !.in_string = FALSE, !.i = @ + 1]
    ELSE IF input[s.i + 1] = s.string_char
    THEN [s EXCEPT !.output = @ \o <<input[s.i + 1], input[s.i + 2]>>,
                   !.i = @ + 2]
    ELSE [s EXCEPT !.output = Append(@, input[s.i + 1]), !.i = @ + 1]

SqlStripNormal(s, input) ==
    LET ch   == input[s.i + 1]
        next == SqlStripNext(s, input)
    IN  IF ch = "-" /\ next = "-"
        THEN [s EXCEPT !.in_line_comment = TRUE, !.i = @ + 2]
        ELSE IF ch = "/" /\ next = "*"
        THEN [s EXCEPT !.in_block_comment = TRUE, !.i = @ + 2]
        ELSE IF ch = "'" \/ ch = "\""
        THEN [s EXCEPT !.in_string = TRUE, !.string_char = ch,
                       !.output = Append(@, ch), !.i = @ + 1]
        ELSE [s EXCEPT !.output = Append(@, ch), !.i = @ + 1]

SqlStripCommentsBody(s, input) ==
    IF s.in_line_comment THEN SqlStripLineComment(s, input)
    ELSE IF s.in_block_comment THEN SqlStripBlockComment(s, input)
    ELSE IF s.in_string THEN SqlStripString(s, input)
    ELSE SqlStripNormal(s, input)

RECURSIVE SqlStripCommentsLoop(_, _)
SqlStripCommentsLoop(s, input) ==
    IF s.i < Len(input)
    THEN SqlStripCommentsLoop(SqlStripCommentsBody(s, input), input)
    ELSE s

SqlStripComments(input) ==
    SqlStripCommentsLoop(SqlStripCommentsInit, input).output

(***************************************************************************)
(* History of string literals: a literal is recorded when a step takes the *)
(* scanner from outside a string into one (open: the input index of the    *)
(* opening quote, out: where that quote landed in the output) and is       *)
(* closed when a step leaves the string (close: the input index of the     *)
(* closing quote).                                                         *)
(***************************************************************************)
NoteLiteral(lits, before, after, outlen) ==
    IF ~before.in_string /\ after.in_string
    THEN Append(lits, [open |-> before.i + 1, out |-> outlen, close |-> 0])
    ELSE IF before.in_string /\ ~after.in_string
    THEN [lits EXCEPT ![Len(lits)].close = after.i]
    ELSE lits

IdemIdle == [pass |-> 0, c1 |-> <<>>, c2 |-> <<>>, cpp1 |-> <<>>, cpp2 |-> <<>>]

(***************************************************************************)
(* tokenize_sql                                                            *)
(*                                                                         *)
(* Byte offsets are counted in blocks of 2^16 bytes, so that offsets up to *)
(* the longest string (below 2^32 bytes) and the 32-bit wrap are within    *)
(* the model checker's integers: offset k stands for byte k * 2^16.        *)
(***************************************************************************)
Int32Wrap == 2^16       \* 2^32 bytes, in blocks

\* Offsets on both sides of INT32_MAX, and the last block of a string.
OffsetSamples == {0, 1, 2^15 - 1, 2^15, 2^16 - 1}

TokenTypes == 0..7      \* SimplifiedTokenType as a uint8_t; 7: no enumerator

\* Token lists of Parser::Tokenize: start offsets increase and lie inside
\* the text.
TokenLists(len) ==
    {t \in UNION {[1..n -> [type : TokenTypes, start : OffsetSamples]] :
                    n \in 0..MaxTokens} :
        /\ \A n \in 1..Len(t) : t[n].start < len
        /\ \A n \in 1..Len(t) - 1 : t[n].start < t[n + 1].start}

\* Parser::Tokenize(query): a token list, or an exception.
TokenizeOutcomes ==
    {[len |-> len, raises |-> TRUE, tokens |-> <<>>] : len \in OffsetSamples}
    \cup UNION {{[len |-> len, raises |-> FALSE, tokens |-> t] :
                    t \in TokenLists(len)} : len \in OffsetSamples}

\* tokenize_sql_impl (tokenizer.cpp): the tokens copied, or none at all when
\* Parser::Tokenize throws.
tokenize_sql_impl(outcome) ==
    IF outcome.raises THEN <<>>
    ELSE [n \in 1..Len(outcome.tokens) |->
            [type  |-> outcome.tokens[n].type % 256,
             start |-> outcome.tokens[n].start]]

token_type_name(type) ==
    CASE type = 0 -> "IDENTIFIER"
      [] type = 1 -> "NUMERIC_CONSTANT"
      [] type = 2 -> "STRING_CONSTANT"
      [] type = 3 -> "OPERATOR"
      [] type = 4 -> "KEYWORD"
      [] type = 5 -> "COMMENT"
      [] type = 6 -> "ERROR"
      [] OTHER -> "UNKNOWN"

TokenTypeToString(type) ==
    CASE type = 0 -> "IDENTIFIER"
      [] type = 1 -> "NUMERIC_CONSTANT"
      [] type = 2 -> "STRING_CONSTANT"
      [] type = 3 -> "OPERATOR"
      [] type = 4 -> "KEYWORD"
      [] type = 5 -> "COMMENT"
      [] OTHER -> "ERROR"

\* (int32_t)start: the low 32 bits, as a signed value.
CastInt32(k) ==
    IF (k % Int32Wrap) >= (Int32Wrap \div 2)
    THEN (k % Int32Wrap) - Int32Wrap
    ELSE k % Int32Wrap

\* Value::BIGINT(start): idx_t to int64_t keeps every value below 2^63, and
\* every offset lies below 2^32.
ValueBigint(k) == k

\* A variant of the loop without its test of count: every record left goes
\* into one chunk.
ChunkSize_whole(total, current_idx) ==
    IF current_idx >= total THEN 0 ELSE total - current_idx

\* The passes of the loop
\*     while (current_idx < total && count < STANDARD_VECTOR_SIZE)
\* of one scan call: the rows it emits.
ChunkSize(total, current_idx) ==
    IF current_idx >= total THEN 0
    ELSE IF total - current_idx < VectorSize THEN total - current_idx
    ELSE VectorSize

\* The host's view of one scan call that emitted `out.rows`: it calls again
\* until a call returns no row.
AfterScanCall(st, out) ==
    [st EXCEPT !.rows = @ \o out.rows,
               !.current_idx = out.current_idx,
               !.status = IF Len(out.rows) = 0 THEN "drained" ELSE "scan",
               !.extra = IF st.status = "drained" THEN @ + 1 ELSE @]

TokIdle ==
    [status |-> "idle", tokens |-> <<>>, current_idx |-> 0,
     rows |-> <<>>, extra |-> 0]

(***************************************************************************)
(* parse_statements                                                        *)
(***************************************************************************)
Null == "NULL"          \* a NULL pointer, a NULL value of a result column

StmtTypes == {"SELECT", "INSERT"}

\* One extracted statement: its type, and what preparing it against the
\* scratch in-memory database gives: "ok", "error" (a prepared statement
\* that carries an error message, e.g. a table the empty database lacks) or
\* "null" (no prepared statement at all).
Statements ==
    [type : StmtTypes, prepare : {"ok", "error", "null"}, nparams : {0, 1}]

ParseErrorMsg == "Parser Error: syntax error"

PrepareErrorMsg == "Catalog Error: table does not exist"

\* The parser on the query text: a syntax error with its message, or the
\* statements of the text (none for an empty text).
ParseOutcomes ==
    {[kind |-> "error", msg |-> ParseErrorMsg, stmts |-> <<>>]}
    \cup {[kind |-> "ok", msg |-> Null, stmts |-> st] :
            st \in UNION {[1..n -> Statements] : n \in 0..MaxStmts}}

\* The C binding also opens a scratch database and connects to it, and
\* prepares each statement; the C++ binding only parses.
Environments(b) ==
    IF b = "c"
    THEN [open_ok : BOOLEAN, connect_ok : BOOLEAN, parse : ParseOutcomes]
    ELSE {e \in [open_ok : {TRUE}, connect_ok : {TRUE}, parse : ParseOutcomes] :
            \A n \in 1..Len(e.parse.stmts) :
                e.parse.stmts[n].prepare = "ok" /\ e.parse.stmts[n].nparams = 0}

PsIdle ==
    [status |-> "idle", stmt_count |-> 0, statements |-> <<>>, error |-> Null,
     current_idx |-> 0, rows |-> <<>>, extra |-> 0]

\* parser.c ParseStatementsBind: the bind data after the calls to
\* duckdb_open, duckdb_connect and duckdb_extract_statements.
ParseStatementsBindData_c(env) ==
    IF ~env.open_ok
    THEN [stmt_count |-> 0, statements |-> <<>>,
          error |-> "Failed to open in-memory database"]
    ELSE IF ~env.connect_ok
    THEN [stmt_count |-> 0, statements |-> <<>>,
          error |-> "Failed to connect to database"]
    ELSE [stmt_count |-> Len(env.parse.stmts),
          statements |-> env.parse.stmts,
          error |-> IF Len(env.parse.stmts) = 0 THEN env.parse.msg ELSE Null]

\* parser.cpp ParseStatementsBind: the statements moved out of the parser,
\* or the message of the exception caught; error is the empty string when
\* nothing was caught.
ParseStatementsBindData_cpp(env) ==
    IF env.parse.kind = "error"
    THEN [stmt_count |-> 0, statements |-> <<>>, error |-> env.parse.msg]
    ELSE [stmt_count |-> Len(env.parse.stmts),
          statements |-> env.parse.stmts, error |-> ""]

\* parser.c ParseStatementsFunc, stmt_count == 0: one row with the error on
\* the first call, when there is an error; no row otherwise.
ParseStatementsErrorRows_c(st) ==
    IF st.current_idx = 0 /\ st.error # Null
    THEN [rows |-> <<[stmt_index |-> 0, stmt_type |-> "INVALID",
                      error |-> st.error, param_count |-> 0]>>,
          current_idx |-> 1]
    ELSE [rows |-> <<>>, current_idx |-> st.current_idx]

\* parser.c ParseStatementsFunc, one pass of the while loop: the row of
\* statement i (0-based), from preparing it.
ParseStatementsRow_c(st, i) ==
    LET stmt == st.statements[i + 1]
    IN  IF stmt.prepare = "ok"
        THEN [stmt_index |-> i, stmt_type |-> stmt.type,
              error |-> Null, param_count |-> stmt.nparams]
        ELSE [stmt_index |-> i, stmt_type |-> "INVALID",
              error |-> IF stmt.prepare = "null" THEN "Unknown error"
                        ELSE PrepareErrorMsg,
              param_count |-> 0]

ParseStatementsRows_c(st) ==
    IF st.stmt_count = 0 THEN ParseStatementsErrorRows_c(st)
    ELSE LET count == ChunkSize(st.stmt_count, st.current_idx)
         IN  [rows |-> [n \in 1..count |->
                          ParseStatementsRow_c(st, st.current_idx + n - 1)],
              current_idx |-> st.current_idx + count]

\* A variant of the error path that leaves the cursor where it was.
ParseStatementsErrorRows_cpp_nocursor(st) ==
    [rows |-> <<[stmt_index |-> 0, stmt_type |-> Null,
                 error |-> st.error, param_count |-> 0]>>,
     current_idx |-> st.current_idx]

\* parser.cpp ParseStatementsFunc, the error path: one row with the error,
\* then return.
ParseStatementsErrorRows_cpp(st) ==
    [rows |-> <<[stmt_index |-> 0, stmt_type |-> Null,
                 error |-> st.error, param_count |-> 0]>>,
     current_idx |-> st.current_idx + 1]

ParseStatementsRow_cpp(st, i) ==
    [stmt_index |-> i, stmt_type |-> st.statements[i + 1].type,
     error |-> Null, param_count |-> 0]

ParseStatementsRows_cpp(st) ==
    IF st.error # "" /\ st.current_idx = 0 THEN ParseStatementsErrorRows_cpp(st)
    ELSE LET count == ChunkSize(Len(st.statements), st.current_idx)
         IN  [rows |-> [n \in 1..count |->
                          ParseStatementsRow_cpp(st, st.current_idx + n - 1)],
              current_idx |-> st.current_idx + count]

StatementsIdle ==
    /\ px = [open_ok |-> TRUE, connect_ok |-> TRUE,
             parse |-> [kind |-> "ok", msg |-> Null, stmts |-> <<>>]]
    /\ ps = PsIdle

(***************************************************************************)
(* parse_tables: the parsed query                                          *)
(*                                                                         *)
(* Table references and query nodes as the DuckDB parser builds them, as   *)
(* records with the fields the extractor reads.                            *)
(***************************************************************************)
BaseTableRef(schema, name) ==
    [type |-> "BASE_TABLE", schema_name |-> schema, table_name |-> name]

TableFunctionRef(name) ==
    [type |-> "TABLE_FUNCTION", schema |-> "", function_name |-> name]

JoinRef(l, r) == [type |-> "JOIN", left |-> l, right |-> r]

SubqueryRef(alias, node) == [type |-> "SUBQUERY", alias |-> alias, node |-> node]

\* The FROM clause of a SELECT without one: a kind the extractor has no case
\* for.
EmptyTableRef == [type |-> "EMPTY_FROM"]

SelectNode(from, ctes) ==
    [type |-> "SELECT_NODE", from_table |-> from, cte_map |-> ctes]

SetOperationNode(l, r, ctes) ==
    [type |-> "SET_OPERATION_NODE", left |-> l, right |-> r, cte_map |-> ctes]

FromNames == {"a", "b", "c"}    \* "c" also names the first CTE

CteNames == <<"c", "d", "e", "g">>

SubqueryAliases == {"sq", "sq2"}

\* t0 JOIN t1 ... JOIN tk, left-deep: ((t0 JOIN t1) JOIN t2) ...
RECURSIVE LeftDeepChain(_)
LeftDeepChain(names) ==
    IF Len(names) = 1 THEN BaseTableRef("", names[1])
    ELSE JoinRef(LeftDeepChain(SubSeq(names, 1, Len(names) - 1)),
                 BaseTableRef("", names[Len(names)]))

ChainNames == UNION {[1..k + 1 -> FromNames] : k \in 1..MaxJoins}

Leaves ==
    {BaseTableRef("", n) : n \in FromNames}
    \cup {BaseTableRef("s", "a"), TableFunctionRef("f"), EmptyTableRef}

\* The bodies of CTE definitions; their tables are x and y.
CteBodies ==
    {SelectNode(BaseTableRef("", "x"), <<>>),
     SelectNode(JoinRef(BaseTableRef("", "x"), BaseTableRef("", "y")), <<>>),
     SelectNode(SubqueryRef("sq", SelectNode(BaseTableRef("", "y"), <<>>)),
                <<>>),
     SelectNode(BaseTableRef("", "x"),
                <<[name |-> "n", node |-> SelectNode(BaseTableRef("", "y"),
                                                     <<>>)]>>),
     SetOperationNode(SelectNode(BaseTableRef("", "x"), <<>>),
                      SelectNode(BaseTableRef("", "y"), <<>>), <<>>)}

\* cte_map: up to MaxCtes definitions, in the order of the WITH clause.
CteMaps ==
    UNION {{[n \in 1..k |-> [name |-> CteNames[n], node |-> b[n]]] :
                b \in [1..k -> CteBodies]} : k \in 0..MaxCtes}

\* The query nodes of subqueries in a FROM clause.
InnerNodes ==
    {SelectNode(f, m) :
        f \in Leaves \cup {JoinRef(BaseTableRef("", "a"), TableFunctionRef("f"))},
        m \in {<<>>, <<[name |-> "c",
                        node |-> SelectNode(BaseTableRef("", "x"), <<>>)]>>}}
    \cup {SetOperationNode(SelectNode(BaseTableRef("", "a"), <<>>),
                           SelectNode(BaseTableRef("", "b"), <<>>), <<>>)}

Subqueries == {SubqueryRef("sq", n) : n \in InnerNodes}

\* FROM clauses: leaves, joins, join chains, subqueries, subqueries of
\* subqueries and joins with a subquery on either side.
FromRefs ==
    Leaves
    \cup {JoinRef(l, r) : l \in Leaves, r \in Leaves}
    \cup {LeftDeepChain(names) : names \in ChainNames}
    \cup Subqueries
    \cup {SubqueryRef("sq2", SelectNode(q, <<>>)) : q \in Subqueries}
    \cup {JoinRef(l, q) : l \in Leaves, q \in Subqueries}
    \cup {JoinRef(q, r) : q \in Subqueries, r \in Leaves}

\* FROM clauses that name the CTE c not at all, once, or several times.
CteRefForms ==
    {BaseTableRef("", "a"),
     BaseTableRef("", "c"),
     JoinRef(BaseTableRef("", "c"), BaseTableRef("", "c")),
     JoinRef(BaseTableRef("", "a"), BaseTableRef("", "c")),
     JoinRef(JoinRef(BaseTableRef("", "c"), BaseTableRef("", "c")),
             BaseTableRef("", "c")),
     EmptyTableRef}

QueryNodes ==
    {SelectNode(f, <<>>) : f \in FromRefs}
    \cup {SelectNode(f, m) : f \in CteRefForms, m \in CteMaps}
    \cup {SetOperationNode(SelectNode(BaseTableRef("", "a"), <<>>),
                           SelectNode(BaseTableRef("", "c"), <<>>), m) :
            m \in CteMaps}

\* The statements of a parsed query: SELECT statements with their query
\* node, and statements of another type.
SelectStatement(node) == [type |-> "SELECT_STATEMENT", node |-> node]

OtherStatement == [type |-> "INSERT_STATEMENT"]

ParsedQueries ==
    {[kind |-> "error", msg |-> ParseErrorMsg, statements |-> <<>>]}
    \cup {[kind |-> "ok", msg |-> Null, statements |-> <<>>],
          [kind |-> "ok", msg |-> Null, statements |-> <<OtherStatement>>]}
    \cup {[kind |-> "ok", msg |-> Null, statements |-> <<SelectStatement(q)>>] :
            q \in QueryNodes}
    \cup {[kind |-> "ok", msg |-> Null,
           statements |-> <<SelectStatement(SelectNode(f, <<>>)),
                            SelectStatement(SelectNode(g, <<>>))>>] :
            f \in {BaseTableRef("", "a"), EmptyTableRef},
            g \in {BaseTableRef("", "b"), TableFunctionRef("f")}}

(***************************************************************************)
(* parse_tables, C++ binding: the walk over the parsed statements          *)
(***************************************************************************)
RECURSIVE ExtractTablesFromQueryNode(_)
RECURSIVE ExtractTablesFromTableRef(_, _)
RECURSIVE ExtractTablesFromCteMap(_)

\* The subquery reported as if it were a table, before its tables.
ExtractTablesSubquery_ownrecord(tref) ==
    <<[schema |-> "", table |-> tref.alias, context |-> "SUBQUERY"]>>
    \o ExtractTablesFromQueryNode(tref.node)

\* case TableReferenceType::SUBQUERY
ExtractTablesSubquery(tref) == ExtractTablesFromQueryNode(tref.node)

ExtractTablesFromTableRef(tref, ctx) ==
    CASE tref.type = "BASE_TABLE" ->
            <<[schema |-> tref.schema_name, table |-> tref.table_name,
               context |-> ctx]>>
      [] tref.type = "JOIN" ->
            ExtractTablesFromTableRef(tref.left, ctx)
            \o ExtractTablesFromTableRef(tref.right, "JOIN")
      [] tref.type = "SUBQUERY" -> ExtractTablesSubquery(tref)
      [] tref.type = "TABLE_FUNCTION" ->
            <<[schema |-> tref.schema, table |-> tref.function_name,
               context |-> "TABLE_FUNCTION"]>>
      [] OTHER -> <<>>

\* Every body walked a second time.
ExtractTablesFromCteMap_twice(ctes) ==
    IF Len(ctes) = 0 THEN <<>>
    ELSE ExtractTablesFromQueryNode(ctes[1].node)
         \o ExtractTablesFromQueryNode(ctes[1].node)
         \o ExtractTablesFromCteMap(Tail(ctes))

\* for (auto &cte : node->cte_map.map): the bodies in the order of the map.
ExtractTablesFromCteMap(ctes) ==
    IF Len(ctes) = 0 THEN <<>>
    ELSE ExtractTablesFromQueryNode(ctes[1].node)
         \o ExtractTablesFromCteMap(Tail(ctes))

ExtractTablesFromQueryNode(node) ==
    (IF node.type = "SELECT_NODE"
     THEN ExtractTablesFromTableRef(node.from_table, "FROM")
     ELSE <<>>)
    \o ExtractTablesFromCteMap(node.cte_map)

ExtractTablesFromStatement(stmt) ==
    IF stmt.type = "SELECT_STATEMENT"
    THEN ExtractTablesFromQueryNode(stmt.node)
    ELSE <<>>

RECURSIVE ExtractTablesFromStatements(_)
ExtractTablesFromStatements(stmts) ==
    IF Len(stmts) = 0 THEN <<>>
    ELSE ExtractTablesFromStatement(stmts[1])
         \o ExtractTablesFromStatements(Tail(stmts))

\* parser.cpp ParseTablesBind: the tables of every statement, or the message
\* of the exception caught.
ParseTablesBindData_cpp(q) ==
    IF q.kind = "error"
    THEN [tables |-> <<>>, error |-> q.msg]
    ELSE [tables |-> ExtractTablesFromStatements(q.statements), error |-> ""]

ParseTablesRow_cpp(t) ==
    [schema_name |-> IF t.schema = "" THEN Null ELSE t.schema,
     table_name |-> t.table, context |-> t.context]

ParseTablesRows_cpp(st) ==
    LET count == ChunkSize(Len(st.tables), st.current_idx)
    IN  [rows |-> [n \in 1..count |->
                     ParseTablesRow_cpp(st.tables[st.current_idx + n])],
         current_idx |-> st.current_idx + count]

(***************************************************************************)
(* parse_tables, C binding: the LOGICAL_GET nodes of the plan that         *)
(* json_serialize_plan gives for the query, planned against the scratch    *)
(* in-memory database. A node is read as far as the scan of the JSON text  *)
(* goes: whether "function_data" follows it, and the "table" and "schema"  *)
(* strings found there (Null when absent).                                 *)
(***************************************************************************)
LogicalGets ==
    [function_data : BOOLEAN, table : {Null}, schema : {Null}]

\* duckdb_query succeeds or not; the scratch database has no table of the
\* user, so no plan reads one: a query over tables serialises to an error
\* object without LOGICAL_GET nodes, and a LOGICAL_GET of a table function
\* has no "table" string.
PlanOutcomes ==
    {[ok |-> FALSE, gets |-> <<>>]}
    \cup {[ok |-> TRUE, gets |-> g] :
            g \in {<<>>} \cup {<<n>> : n \in LogicalGets}}

RECURSIVE ExtractTablesFromJson(_, _)
ExtractTablesFromJson(gets, context) ==
    IF Len(gets) = 0 THEN <<>>
    ELSE (IF gets[1].function_data /\ gets[1].table # Null
          THEN <<[schema |-> IF gets[1].schema # Null THEN gets[1].schema
                             ELSE "main",
                  table |-> gets[1].table,
                  context |-> context]>>
          ELSE <<>>)
         \o ExtractTablesFromJson(Tail(gets), context)

ParseTablesBindData_c(env) ==
    IF env.open_ok /\ env.connect_ok /\ env.plan.ok
    THEN [tables |-> ExtractTablesFromJson(env.plan.gets, "from"), error |-> ""]
    ELSE [tables |-> <<>>, error |-> ""]

ParseTablesRow_c(t) ==
    [schema_name |-> t.schema, table_name |-> t.table, context |-> t.context]

ParseTablesRows_c(st) ==
    LET count == ChunkSize(Len(st.tables), st.current_idx)
    IN  [rows |-> [n \in 1..count |->
                     ParseTablesRow_c(st.tables[st.current_idx + n])],
         current_idx |-> st.current_idx + count]

\* The query and, for the C binding, the scratch database and the plan.
TableQueries(b) ==
    IF b = "c"
    THEN [query : ParsedQueries, open_ok : BOOLEAN, connect_ok : BOOLEAN,
          plan : PlanOutcomes]
    ELSE [query : ParsedQueries, open_ok : {TRUE}, connect_ok : {TRUE},
          plan : {[ok |-> TRUE, gets |-> <<>>]}]

\* parser.cpp ParseTableNamesFunc: the names of the tables extracted; an
\* exception of the parser is caught and dropped.
ParseTableNamesList(q) ==
    LET tables == IF q.kind = "error" THEN <<>>
                  ELSE ExtractTablesFromStatements(q.statements)
    IN  [n \in 1..Len(tables) |-> tables[n].table]

TnIdle == [status |-> "idle", list |-> <<>>]

PtIdle ==
    [status |-> "idle", tables |-> <<>>, error |-> "",
     current_idx |-> 0, rows |-> <<>>, extra |-> 0]

TablesIdle ==
    /\ pq = [query |-> [kind |-> "ok", msg |-> Null, statements |-> <<>>],
             open_ok |-> TRUE, connect_ok |-> TRUE,
             plan |-> [ok |-> TRUE, gets |-> <<>>]]
    /\ pt = PtIdle
    /\ tn = TnIdle

(***************************************************************************)
(* The expression extractors: the parsed expressions                       *)
(*                                                                         *)
(* Expressions as the DuckDB parser builds them, as records with the       *)
(* fields the extractors read: the expression type, its class, the alias   *)
(* given in the SELECT list ("" when there is none) and the operands.      *)
(***************************************************************************)
ColumnRefExpression(name) ==
    [type |-> "COLUMN_REF", class |-> "COLUMN_REF", alias |-> "",
     column_name |-> name]

ConstantExpression(v) ==
    [type |-> "VALUE_CONSTANT", class |-> "CONSTANT", alias |-> "",
     value |-> v]

FunctionExpression(name, is_operator, distinct, children) ==
    [type |-> "FUNCTION", class |-> "FUNCTION", alias |-> "",
     function_name |-> name, is_operator |-> is_operator,
     distinct |-> distinct, children |-> children]

ComparisonExpression(type, l, r) ==
    [type |-> type, class |-> "COMPARISON", alias |-> "",
     left |-> l, right |-> r]

ConjunctionExpression(type, children) ==
    [type |-> type, class |-> "CONJUNCTION", alias |-> "",
     children |-> children]

CastExpression(child) ==
    [type |-> "OPERATOR_CAST", class |-> "CAST", alias |-> "",
     child |-> child]

\* x IN (...), x NOT IN (...): an operator expression, not a comparison.
OperatorExpression(type, children) ==
    [type |-> type, class |-> "OPERATOR", alias |-> "",
     children |-> children]

\* No expression: a null where_clause.
NoExpression == [type |-> "NULLPTR", class |-> "NULLPTR", alias |-> ""]

WithAlias(e, a) == [e EXCEPT !.alias = a]

\* The SELECT node as the expression extractors read it.
SelectNodeOf(select_list, from, where, groups) ==
    [type |-> "SELECT_NODE", select_list |-> select_list,
     from_table |-> from, where_clause |-> where,
     group_expressions |-> groups, cte_map |-> <<>>]

\* A set operation over two SELECT nodes.
SetOperationNodeOf(l, r) ==
    [type |-> "SET_OPERATION_NODE", left |-> l, right |-> r, cte_map |-> <<>>]

ColX == ColumnRefExpression("x")

ColY == ColumnRefExpression("y")

Const1 == ConstantExpression("1")

Const2 == ConstantExpression("2")

(***************************************************************************)
(* parse_functions, C++ binding: the walk over the SELECT list, the WHERE  *)
(* predicate and the GROUP BY expressions                                  *)
(***************************************************************************)
\* f.type = fn.is_operator ? "operator" : (fn.distinct ? "aggregate" : "scalar")
FunctionKind(fn) ==
    IF fn.is_operator THEN "operator"
    ELSE IF fn.distinct THEN "aggregate" ELSE "scalar"

RECURSIVE ExtractFunctionsFromExpression(_)
RECURSIVE ExtractFunctionsFromList(_)

\* for (auto &child : fn.children) / for (auto &expr : select.select_list)
ExtractFunctionsFromList(exprs) ==
    IF Len(exprs) = 0 THEN <<>>
    ELSE ExtractFunctionsFromExpression(exprs[1])
         \o ExtractFunctionsFromList(Tail(exprs))

ExtractFunctionsFromExpression(expr) ==
    IF expr.type = "FUNCTION"
    THEN <<[name |-> expr.function_name, type |-> FunctionKind(expr)]>>
         \o ExtractFunctionsFromList(expr.children)
    ELSE <<>>

ExtractFunctionsFromQueryNode(node) ==
    IF node.type = "SELECT_NODE"
    THEN ExtractFunctionsFromList(node.select_list)
         \o ExtractFunctionsFromExpression(node.where_clause)
         \o ExtractFunctionsFromList(node.group_expressions)
    ELSE <<>>

ExtractFunctionsFromStatement(stmt) ==
    IF stmt.type = "SELECT_STATEMENT"
    THEN ExtractFunctionsFromQueryNode(stmt.node)
    ELSE <<>>

RECURSIVE ExtractFunctionsFromStatements(_)
ExtractFunctionsFromStatements(stmts) ==
    IF Len(stmts) = 0 THEN <<>>
    ELSE ExtractFunctionsFromStatement(stmts[1])
         \o ExtractFunctionsFromStatements(Tail(stmts))

\* parser.cpp ParseFunctionsBind
ParseFunctionsBindData_cpp(q) ==
    IF q.kind = "error"
    THEN [functions |-> <<>>, error |-> q.msg]
    ELSE [functions |-> ExtractFunctionsFromStatements(q.statements),
          error |-> ""]

ParseFunctionsRow(f) == [function_name |-> f.name, function_type |-> f.type]

\* ParseFunctionsFunc, both bindings: one vector of rows from the cursor on.
ParseFunctionsRows(st) ==
    LET count == ChunkSize(Len(st.functions), st.current_idx)
    IN  [rows |-> [n \in 1..count |->
                     ParseFunctionsRow(st.functions[st.current_idx + n])],
         current_idx |-> st.current_idx + count]

(***************************************************************************)
(* The expression extractors, C binding: the query is planned against the  *)
(* scratch in-memory database with json_serialize_plan and the plan's JSON *)
(* is searched for bound expressions. A query plans only if the empty      *)
(* catalog resolves it: no table in FROM and no column reference.          *)
(***************************************************************************)
Operands(expr) ==
    CASE expr.class = "FUNCTION" -> expr.children
      [] expr.class = "COMPARISON" -> <<expr.left, expr.right>>
      [] expr.class = "CONJUNCTION" -> expr.children
      [] expr.class = "CAST" -> <<expr.child>>
      [] expr.class = "OPERATOR" -> expr.children
      [] OTHER -> <<>>

RECURSIVE NodesOf(_)
RECURSIVE NodesOfList(_)

NodesOfList(exprs) ==
    IF Len(exprs) = 0 THEN <<>>
    ELSE NodesOf(exprs[1]) \o NodesOfList(Tail(exprs))

\* Every expression node below and including expr, parents first.
NodesOf(expr) ==
    IF expr.type = "NULLPTR" THEN <<>>
    ELSE <<expr>> \o NodesOfList(Operands(expr))

\* The expressions of the plan of a query node: the projection on top, the
\* filter below it, the grouping below that.
RECURSIVE PlanNodes(_)
PlanNodes(node) ==
    IF node.type = "SELECT_NODE"
    THEN NodesOfList(node.select_list) \o NodesOf(node.where_clause)
         \o NodesOfList(node.group_expressions)
    ELSE PlanNodes(node.left) \o PlanNodes(node.right)

RECURSIVE NodeBinds(_)
NodeBinds(node) ==
    IF node.type = "SELECT_NODE"
    THEN /\ node.from_table = EmptyTableRef
         /\ \A n \in DOMAIN PlanNodes(node) :
                PlanNodes(node)[n].type # "COLUMN_REF"
    ELSE NodeBinds(node.left) /\ NodeBinds(node.right)

\* duckdb_open, duckdb_connect and duckdb_query succeed and the query text
\* is one SELECT statement that the empty catalog resolves.
PlanAvailable(env) ==
    /\ env.open_ok /\ env.connect_ok /\ env.query_ok
    /\ env.query.kind = "ok"
    /\ Len(env.query.statements) = 1
    /\ env.query.statements[1].type = "SELECT_STATEMENT"
    /\ NodeBinds(env.query.statements[1].node)

\* The functions the catalog binds as aggregates.
AggregateNames == {"sum", "count"}

\* SELECT DISTINCT: each row once, at its first place.
RECURSIVE Distinct(_)
Distinct(rows) ==
    IF Len(rows) = 0 THEN <<>>
    ELSE LET init == Distinct(SubSeq(rows, 1, Len(rows) - 1))
             last == rows[Len(rows)]
         IN  IF \E n \in DOMAIN init : init[n] = last THEN init
             ELSE Append(init, last)

\* The rows of the query ParseFunctionsBind sends: the name of every bound
\* function or aggregate of the plan, with 'aggregate' for a
\* BOUND_AGGREGATE and 'scalar' for anything else.
PlanFunctionRows(node) ==
    LET calls == SelectSeq(PlanNodes(node), LAMBDA e : e.type = "FUNCTION")
    IN  Distinct([n \in DOMAIN calls |->
                   [name |-> calls[n].function_name,
                    type |-> IF calls[n].function_name \in AggregateNames
                             THEN "aggregate" ELSE "scalar"]])

\* parser.c ParseFunctionsBind
ParseFunctionsBindData_c(env) ==
    IF PlanAvailable(env)
    THEN [functions |-> PlanFunctionRows(env.query.statements[1].node),
          error |-> ""]
    ELSE [functions |-> <<>>, error |-> ""]

(***************************************************************************)
(* parse_where, C++ binding: the walk over the WHERE predicate             *)
(***************************************************************************)
ComparisonTypeToOperator(type) ==
    CASE type = "COMPARE_EQUAL" -> "="
      [] type = "COMPARE_NOTEQUAL" -> "!="
      [] type = "COMPARE_LESSTHAN" -> "<"
      [] type = "COMPARE_GREATERTHAN" -> ">"
      [] type = "COMPARE_LESSTHANOREQUALTO" -> "<="
      [] type = "COMPARE_GREATERTHANOREQUALTO" -> ">="
      [] type = "COMPARE_IN" -> "IN"
      [] type = "COMPARE_NOT_IN" -> "NOT IN"
      [] OTHER -> "?"

\* The spelling of a comparison type in the text ToString() gives.
ComparisonSpelling(type) ==
    CASE type = "COMPARE_EQUAL" -> "="
      [] type = "COMPARE_NOTEQUAL" -> "!="
      [] type = "COMPARE_LESSTHAN" -> "<"
      [] type = "COMPARE_GREATERTHAN" -> ">"
      [] type = "COMPARE_LESSTHANOREQUALTO" -> "<="
      [] type = "COMPARE_GREATERTHANOREQUALTO" -> ">="
      [] OTHER -> "IS DISTINCT FROM"

RECURSIVE ExprToString(_)
RECURSIVE JoinStrings(_, _)

\* The renderings of the expressions, sep between them.
JoinStrings(exprs, sep) ==
    IF Len(exprs) = 0 THEN ""
    ELSE IF Len(exprs) = 1 THEN ExprToString(exprs[1])
    ELSE ExprToString(exprs[1]) \o sep \o JoinStrings(Tail(exprs), sep)

\* ParsedExpression::ToString(): the expression as SQL text.
ExprToString(expr) ==
    CASE expr.type = "COLUMN_REF" -> expr.column_name
      [] expr.type = "VALUE_CONSTANT" -> expr.value
      [] expr.type = "FUNCTION" ->
            IF expr.is_operator
            THEN "(" \o JoinStrings(expr.children,
                                    " " \o expr.function_name \o " ") \o ")"
            ELSE expr.function_name \o "("
                 \o (IF expr.distinct THEN "DISTINCT " ELSE "")
                 \o JoinStrings(expr.children, ", ") \o ")"
      [] expr.class = "COMPARISON" ->
            "(" \o ExprToString(expr.left) \o " " \o ComparisonSpelling(expr.type)
            \o " " \o ExprToString(expr.right) \o ")"
      [] expr.class = "CONJUNCTION" ->
            "(" \o JoinStrings(expr.children,
                               IF expr.type = "CONJUNCTION_AND" THEN " AND "
                               ELSE " OR ") \o ")"
      [] expr.class = "CAST" ->
            "CAST(" \o ExprToString(expr.child) \o " AS INTEGER)"
      [] expr.class = "OPERATOR" ->
            "(" \o ExprToString(expr.children[1])
            \o (IF expr.type = "COMPARE_IN" THEN " IN (" ELSE " NOT IN (")
            \o JoinStrings(Tail(expr.children), ", ") \o "))"
      [] OTHER -> ""

\* The record of a comparison: the column name or the text of the left
\* operand, the operator, the constant or the text of the right operand.
WhereConditionOf(cmp) ==
    [column_name |-> IF cmp.left.type = "COLUMN_REF" THEN cmp.left.column_name
                     ELSE ExprToString(cmp.left),
     op |-> ComparisonTypeToOperator(cmp.type),
     value |-> IF cmp.right.type = "VALUE_CONSTANT" THEN cmp.right.value
               ELSE ExprToString(cmp.right)]

RECURSIVE ExtractWhereConditions(_)
RECURSIVE ExtractWhereChildren(_)

\* for (auto &child : conj.children)
ExtractWhereChildren(children) ==
    IF Len(children) = 0 THEN <<>>
    ELSE ExtractWhereConditions(children[1])
         \o ExtractWhereChildren(Tail(children))

ExtractWhereConditions(expr) ==
    IF expr.type \in {"CONJUNCTION_AND", "CONJUNCTION_OR"}
    THEN ExtractWhereChildren(expr.children)
    ELSE IF expr.class = "COMPARISON" THEN <<WhereConditionOf(expr)>>
    ELSE <<>>

\* ParseWhereBind: the WHERE predicate of a SELECT statement over a SELECT
\* node.
ExtractWhereFromStatement(stmt) ==
    IF stmt.type = "SELECT_STATEMENT" /\ stmt.node.type = "SELECT_NODE"
    THEN ExtractWhereConditions(stmt.node.where_clause)
    ELSE <<>>

RECURSIVE ExtractWhereFromStatements(_)
ExtractWhereFromStatements(stmts) ==
    IF Len(stmts) = 0 THEN <<>>
    ELSE ExtractWhereFromStatement(stmts[1])
         \o ExtractWhereFromStatements(Tail(stmts))

\* parser.cpp ParseWhereBind
ParseWhereBindData_cpp(q) ==
    IF q.kind = "error"
    THEN [conditions |-> <<>>, error |-> q.msg]
    ELSE [conditions |-> ExtractWhereFromStatements(q.statements),
          error |-> ""]

(***************************************************************************)
(* parse_where, C binding: one row for every BOUND_COMPARISON of the plan  *)
(***************************************************************************)
\* CASE json_extract_string(t.value, '$.type') WHEN ... ELSE the type END
PlanComparisonOperator(type) ==
    CASE type = "COMPARE_GREATERTHAN" -> ">"
      [] type = "COMPARE_LESSTHAN" -> "<"
      [] type = "COMPARE_EQUAL" -> "="
      [] type = "COMPARE_NOTEQUAL" -> "!="
      [] type = "COMPARE_GREATERTHANOREQUALTO" -> ">="
      [] type = "COMPARE_LESSTHANOREQUALTO" -> "<="
      [] OTHER -> type

\* The operands of a plan that binds on the empty catalog are constants and
\* calls: '$.left.alias' and '$.right.child.value.value' are absent and
\* COALESCE gives ''.
PlanWhereRows(node) ==
    LET cmps == SelectSeq(PlanNodes(node), LAMBDA e : e.class = "COMPARISON")
    IN  [n \in DOMAIN cmps |->
           [column_name |-> "", op |-> PlanComparisonOperator(cmps[n].type),
            value |-> ""]]

\* parser.c ParseWhereBind
ParseWhereBindData_c(env) ==
    IF PlanAvailable(env)
    THEN [conditions |-> PlanWhereRows(env.query.statements[1].node),
          error |-> ""]
    ELSE [conditions |-> <<>>, error |-> ""]

ParseWhereRow(cond) ==
    [column_name |-> cond.column_name, operator |-> cond.op,
     value |-> cond.value]

\* ParseWhereFunc, both bindings: one vector of rows from the cursor on.
ParseWhereRows(st) ==
    LET count == ChunkSize(Len(st.conditions), st.current_idx)
    IN  [rows |-> [n \in 1..count |->
                     ParseWhereRow(st.conditions[st.current_idx + n])],
         current_idx |-> st.current_idx + count]

PfIdle ==
    [status |-> "idle", functions |-> <<>>, error |-> "",
     current_idx |-> 0, rows |-> <<>>, extra |-> 0]

PwIdle ==
    [status |-> "idle", conditions |-> <<>>, error |-> "",
     current_idx |-> 0, rows |-> <<>>, extra |-> 0]

PcIdle ==
    [status |-> "idle", stmt_index |-> 0, col_names |-> <<>>, error |-> "",
     current_idx |-> 0, rows |-> <<>>, extra |-> 0]

\* The statements of a query text, each SELECT with one of the given nodes.
ExprQueries(nodes) ==
    {[kind |-> "error", msg |-> ParseErrorMsg, statements |-> <<>>],
     [kind |-> "ok", msg |-> Null, statements |-> <<>>],
     [kind |-> "ok", msg |-> Null, statements |-> <<OtherStatement>>]}
    \cup {[kind |-> "ok", msg |-> Null, statements |-> <<SelectStatement(q)>>] :
            q \in nodes}

\* The query and, for the C binding, what the scratch database does: open,
\* connect and query are tried in this order.
ExprEnvironments(b, queries) ==
    IF b = "c"
    THEN {[query |-> q, open_ok |-> e[1], connect_ok |-> e[2],
           query_ok |-> e[3]] :
            q \in queries,
            e \in {<<TRUE, TRUE, TRUE>>, <<TRUE, TRUE, FALSE>>,
                   <<TRUE, FALSE, FALSE>>, <<FALSE, FALSE, FALSE>>}}
    ELSE {[query |-> q, open_ok |-> TRUE, connect_ok |-> TRUE,
           query_ok |-> TRUE] : q \in queries}

TyIdle ==
    [status |-> "idle", has_type |-> FALSE, col_type |-> [id |-> "INVALID"],
     done |-> FALSE, rows |-> <<>>]

KwIdle == [status |-> "idle", input |-> <<>>, result |-> <<>>]

\* No function holding handles has been called: every handle is NULL, the
\* log of acquisitions and releases is empty.
RsIdle ==
    [fn |-> "none", status |-> "idle",
     env |-> [open_ok |-> TRUE, connect_ok |-> TRUE, stmts |-> <<>>,
              stmt_index |-> 0, execute_ok |-> TRUE, rows |-> <<>>],
     db |-> FALSE, conn |-> FALSE, stmts |-> FALSE, prepared |-> FALSE,
     result |-> FALSE, has_result |-> FALSE, stmt_count |-> 0,
     current_idx |-> 0, log |-> <<>>]

SkIdle ==
    [status |-> "idle", keywords |-> <<>>, current_idx |-> 0,
     rows |-> <<>>, extra |-> 0]

\* None of the three functions has been called.
VsIdle ==
    [calls |-> {}, is_valid |-> FALSE, error_message |-> Null,
     num_statements |-> 0]

CapiIdle ==
    /\ ty = TyIdle
    /\ kw = KwIdle
    /\ rs = RsIdle
    /\ sk = SkIdle
    /\ vs = VsIdle

ExprIdle ==
    /\ eq = [query |-> [kind |-> "ok", msg |-> Null, statements |-> <<>>],
             open_ok |-> TRUE, connect_ok |-> TRUE, query_ok |-> TRUE]
    /\ pf = PfIdle
    /\ pw = PwIdle
    /\ pc = PcIdle

StripIdle ==
    /\ sql = <<>>
    /\ turn = "c"
    /\ c = StripCommentsInit
    /\ cpp = SqlStripCommentsInit
    /\ c_lits = <<>>
    /\ cpp_lits = <<>>
    /\ idem = IdemIdle

TokenizeIdle ==
    /\ tz = [len |-> 0, raises |-> FALSE, tokens |-> <<>>]
    /\ tok = TokIdle

(***************************************************************************)
(* The scanners run side by side on one text, a step at a time             *)
(***************************************************************************)
StripInit ==
    /\ sql \in Texts(MaxLen)
    /\ turn = "c"
    /\ c = StripCommentsInit
    /\ cpp = SqlStripCommentsInit
    /\ c_lits = <<>>
    /\ cpp_lits = <<>>
    /\ idem = IdemIdle
    /\ binding = "both"
    /\ TokenizeIdle
    /\ StatementsIdle
    /\ TablesIdle
    /\ ExprIdle
    /\ CapiIdle

StripCommentsStep ==
    /\ turn = "c"
    /\ c.pc = "loop"
    /\ c.i < Len(sql)
    /\ c' = StripCommentsBody(c, sql)
    /\ c_lits' = NoteLiteral(c_lits, c, c', Len(c'.result))
    /\ turn' = "cpp"
    /\ UNCHANGED <<sql, cpp, cpp_lits, idem, binding, tokVars, stmtVars, tableVars, exprVars, capiVars>>

\* result[j] = '\0'; return result;
StripCommentsReturn ==
    /\ turn = "c"
    /\ c.pc = "loop"
    /\ c.i >= Len(sql)
    /\ c' = [c EXCEPT !.pc = "done"]
    /\ turn' = "cpp"
    /\ UNCHANGED <<sql, cpp, c_lits, cpp_lits, idem, binding, tokVars, stmtVars, tableVars, exprVars, capiVars>>

SqlStripCommentsStep ==
    /\ turn = "cpp"
    /\ cpp.pc = "loop"
    /\ cpp.i < Len(sql)
    /\ cpp' = SqlStripCommentsBody(cpp, sql)
    /\ cpp_lits' = NoteLiteral(cpp_lits, cpp, cpp', Len(cpp'.output))
    /\ turn' = "c"
    /\ UNCHANGED <<sql, c, c_lits, idem, binding, tokVars, stmtVars, tableVars, exprVars, capiVars>>

\* return StringVector::AddString(result, output);
SqlStripCommentsReturn ==
    /\ turn = "cpp"
    /\ cpp.pc = "loop"
    /\ cpp.i >= Len(sql)
    /\ cpp' = [cpp EXCEPT !.pc = "done"]
    /\ turn' = "c"
    /\ UNCHANGED <<sql, c, c_lits, cpp_lits, idem, binding, tokVars, stmtVars, tableVars, exprVars, capiVars>>

StripNext ==
    \/ StripCommentsStep
    \/ StripCommentsReturn
    \/ SqlStripCommentsStep
    \/ SqlStripCommentsReturn

SpecStrip == StripInit /\ [][StripNext]_vars

(***************************************************************************)
(* sql_strip_comments applied to a text and then to its own result         *)
(***************************************************************************)
IdemInit ==
    /\ sql \in Texts(IdemLen)
    /\ turn = "c"
    /\ c = StripCommentsInit
    /\ cpp = SqlStripCommentsInit
    /\ c_lits = <<>>
    /\ cpp_lits = <<>>
    /\ idem = IdemIdle
    /\ binding = "both"
    /\ TokenizeIdle
    /\ StatementsIdle
    /\ TablesIdle
    /\ ExprIdle
    /\ CapiIdle

StripOnce ==
    /\ idem.pass = 0
    /\ idem' = [idem EXCEPT !.pass = 1,
                            !.c1 = StripComments(sql),
                            !.cpp1 = SqlStripComments(sql)]
    /\ UNCHANGED <<sql, turn, c, cpp, c_lits, cpp_lits, binding, tokVars, stmtVars, tableVars, exprVars, capiVars>>

StripTwice ==
    /\ idem.pass = 1
    /\ idem' = [idem EXCEPT !.pass = 2,
                            !.c2 = StripComments(idem.c1),
                            !.cpp2 = SqlStripComments(idem.cpp1)]
    /\ UNCHANGED <<sql, turn, c, cpp, c_lits, cpp_lits, binding, tokVars, stmtVars, tableVars, exprVars, capiVars>>

IdemNext ==
    \/ StripOnce
    \/ StripTwice

SpecIdem == IdemInit /\ [][IdemNext]_vars

(***************************************************************************)
(* tokenize_sql as the host drives it: bind, init, then scan calls until   *)
(* one returns no row (and MaxExtraCalls more).                            *)
(***************************************************************************)
TokInit ==
    /\ StripIdle
    /\ binding \in {"c", "cpp"}
    /\ tz \in TokenizeOutcomes
    /\ tok = [TokIdle EXCEPT !.status = "unbound"]
    /\ StatementsIdle
    /\ TablesIdle
    /\ ExprIdle
    /\ CapiIdle

\* parser.c: the bind data holds the result of tokenize_sql_impl.
TokenizeSqlBind_c ==
    /\ binding = "c"
    /\ tok.status = "unbound"
    /\ tok' = [tok EXCEPT !.status = "bound", !.tokens = tokenize_sql_impl(tz)]
    /\ UNCHANGED <<stripVars, binding, tz, stmtVars, tableVars, exprVars, capiVars>>

\* parser.cpp: the bind data holds the tokens of Parser::Tokenize; an
\* exception of Parser::Tokenize leaves the bind function.
TokenizeSqlBind_cpp ==
    /\ binding = "cpp"
    /\ tok.status = "unbound"
    /\ tok' = IF tz.raises
              THEN [tok EXCEPT !.status = "exception"]
              ELSE [tok EXCEPT !.status = "bound", !.tokens = tz.tokens]
    /\ UNCHANGED <<stripVars, binding, tz, stmtVars, tableVars, exprVars, capiVars>>

\* TokenizeSqlInit, both bindings: current_idx = 0.
TokenizeSqlInit ==
    /\ tok.status = "bound"
    /\ tok' = [tok EXCEPT !.status = "scan", !.current_idx = 0]
    /\ UNCHANGED <<stripVars, binding, tz, stmtVars, tableVars, exprVars, capiVars>>

\* One pass of the while loop of TokenizeSqlFunc: the row of token n.
TokenRow_c(st, n) ==
    [byte_position |-> CastInt32(st.tokens[n].start),
     category |-> token_type_name(st.tokens[n].type)]

TokenRow_cpp(st, n) ==
    [byte_position |-> ValueBigint(st.tokens[n].start),
     category |-> TokenTypeToString(st.tokens[n].type)]

\* The rows of one scan call and the cursor after it.
TokenizeSqlRows_c(st) ==
    LET count == ChunkSize(Len(st.tokens), st.current_idx)
    IN  [rows |-> [n \in 1..count |-> TokenRow_c(st, st.current_idx + n)],
         current_idx |-> st.current_idx + count]

TokenizeSqlRows_cpp(st) ==
    LET count == ChunkSize(Len(st.tokens), st.current_idx)
    IN  [rows |-> [n \in 1..count |-> TokenRow_cpp(st, st.current_idx + n)],
         current_idx |-> st.current_idx + count]

TokenizeSqlFunc_c ==
    /\ binding = "c"
    /\ \/ tok.status = "scan"
       \/ tok.status = "drained" /\ tok.extra < MaxExtraCalls
    /\ tok' = AfterScanCall(tok, TokenizeSqlRows_c(tok))
    /\ UNCHANGED <<stripVars, binding, tz, stmtVars, tableVars, exprVars, capiVars>>

TokenizeSqlFunc_cpp ==
    /\ binding = "cpp"
    /\ \/ tok.status = "scan"
       \/ tok.status = "drained" /\ tok.extra < MaxExtraCalls
    /\ tok' = AfterScanCall(tok, TokenizeSqlRows_cpp(tok))
    /\ UNCHANGED <<stripVars, binding, tz, stmtVars, tableVars, exprVars, capiVars>>

TokNext ==
    \/ TokenizeSqlBind_c
    \/ TokenizeSqlBind_cpp
    \/ TokenizeSqlInit
    \/ TokenizeSqlFunc_c
    \/ TokenizeSqlFunc_cpp

SpecTok == TokInit /\ [][TokNext]_vars

(***************************************************************************)
(* parse_statements as the host drives it                                  *)
(***************************************************************************)
StmtInit ==
    /\ StripIdle
    /\ TokenizeIdle
    /\ binding \in {"c", "cpp"}
    /\ px \in Environments(binding)
    /\ ps = [PsIdle EXCEPT !.status = "unbound"]
    /\ TablesIdle
    /\ ExprIdle
    /\ CapiIdle

ParseStatementsBind_c ==
    /\ binding = "c"
    /\ ps.status = "unbound"
    /\ ps' = [ps EXCEPT
                !.status = "bound",
                !.stmt_count = ParseStatementsBindData_c(px).stmt_count,
                !.statements = ParseStatementsBindData_c(px).statements,
                !.error = ParseStatementsBindData_c(px).error]
    /\ UNCHANGED <<stripVars, binding, tokVars, px, tableVars, exprVars, capiVars>>

ParseStatementsBind_cpp ==
    /\ binding = "cpp"
    /\ ps.status = "unbound"
    /\ ps' = [ps EXCEPT
                !.status = "bound",
                !.stmt_count = ParseStatementsBindData_cpp(px).stmt_count,
                !.statements = ParseStatementsBindData_cpp(px).statements,
                !.error = ParseStatementsBindData_cpp(px).error]
    /\ UNCHANGED <<stripVars, binding, tokVars, px, tableVars, exprVars, capiVars>>

\* ParseStatementsInit, both bindings: current_idx = 0.
ParseStatementsInit ==
    /\ ps.status = "bound"
    /\ ps' = [ps EXCEPT !.status = "scan", !.current_idx = 0]
    /\ UNCHANGED <<stripVars, binding, tokVars, px, tableVars, exprVars, capiVars>>

ParseStatementsFunc_c ==
    /\ binding = "c"
    /\ \/ ps.status = "scan"
       \/ ps.status = "drained" /\ ps.extra < MaxExtraCalls
    /\ ps' = AfterScanCall(ps, ParseStatementsRows_c(ps))
    /\ UNCHANGED <<stripVars, binding, tokVars, px, tableVars, exprVars, capiVars>>

ParseStatementsFunc_cpp ==
    /\ binding = "cpp"
    /\ \/ ps.status = "scan"
       \/ ps.status = "drained" /\ ps.extra < MaxExtraCalls
    /\ ps' = AfterScanCall(ps, ParseStatementsRows_cpp(ps))
    /\ UNCHANGED <<stripVars, binding, tokVars, px, tableVars, exprVars, capiVars>>

StmtNext ==
    \/ ParseStatementsBind_c
    \/ ParseStatementsBind_cpp
    \/ ParseStatementsInit
    \/ ParseStatementsFunc_c
    \/ ParseStatementsFunc_cpp

SpecStmt == StmtInit /\ [][StmtNext]_vars

(***************************************************************************)
(* parse_tables as the host drives it                                      *)
(***************************************************************************)
TablesInit ==
    /\ StripIdle
    /\ TokenizeIdle
    /\ StatementsIdle
    /\ binding \in {"c", "cpp"}
    /\ pq \in TableQueries(binding)
    /\ pt = [PtIdle EXCEPT !.status = "unbound"]
    /\ tn = [TnIdle EXCEPT !.status = "uncalled"]
    /\ ExprIdle
    /\ CapiIdle

ParseTablesBind_c ==
    /\ binding = "c"
    /\ pt.status = "unbound"
    /\ pt' = [pt EXCEPT !.status = "bound",
                        !.tables = ParseTablesBindData_c(pq).tables,
                        !.error = ParseTablesBindData_c(pq).error]
    /\ UNCHANGED <<stripVars, binding, tokVars, stmtVars, pq, tn, exprVars, capiVars>>

ParseTablesBind_cpp ==
    /\ binding = "cpp"
    /\ pt.status = "unbound"
    /\ pt' = [pt EXCEPT !.status = "bound",
                        !.tables = ParseTablesBindData_cpp(pq.query).tables,
                        !.error = ParseTablesBindData_cpp(pq.query).error]
    /\ UNCHANGED <<stripVars, binding, tokVars, stmtVars, pq, tn, exprVars, capiVars>>

\* ParseTablesInit, both bindings: current_idx = 0.
ParseTablesInit ==
    /\ pt.status = "bound"
    /\ pt' = [pt EXCEPT !.status = "scan", !.current_idx = 0]
    /\ UNCHANGED <<stripVars, binding, tokVars, stmtVars, pq, tn, exprVars, capiVars>>

ParseTablesFunc_c ==
    /\ binding = "c"
    /\ \/ pt.status = "scan"
       \/ pt.status = "drained" /\ pt.extra < MaxExtraCalls
    /\ pt' = AfterScanCall(pt, ParseTablesRows_c(pt))
    /\ UNCHANGED <<stripVars, binding, tokVars, stmtVars, pq, tn, exprVars, capiVars>>

ParseTablesFunc_cpp ==
    /\ binding = "cpp"
    /\ \/ pt.status = "scan"
       \/ pt.status = "drained" /\ pt.extra < MaxExtraCalls
    /\ pt' = AfterScanCall(pt, ParseTablesRows_cpp(pt))
    /\ UNCHANGED <<stripVars, binding, tokVars, stmtVars, pq, tn, exprVars, capiVars>>

\* The scalar function, called on the same query text.
ParseTableNamesFunc ==
    /\ binding = "cpp"
    /\ tn.status = "uncalled"
    /\ tn' = [status |-> "returned", list |-> ParseTableNamesList(pq.query)]
    /\ UNCHANGED <<stripVars, binding, tokVars, stmtVars, pq, pt, exprVars, capiVars>>

TablesNext ==
    \/ ParseTableNamesFunc
    \/ ParseTablesBind_c
    \/ ParseTablesBind_cpp
    \/ ParseTablesInit
    \/ ParseTablesFunc_c
    \/ ParseTablesFunc_cpp

SpecTables == TablesInit /\ [][TablesNext]_vars

(***************************************************************************)
(* parse_functions: the queries                                            *)
(***************************************************************************)
\* function_name, is_operator and distinct of a call, as FunctionExpression
\* holds them.
FunctionForms ==
    {<<"f", FALSE, FALSE>>, <<"f", FALSE, TRUE>>, <<"sum", FALSE, FALSE>>,
     <<"+", TRUE, FALSE>>, <<"+", TRUE, TRUE>>}

Calls ==
    {FunctionExpression(k[1], k[2], k[3], a) :
        k \in FunctionForms, a \in {<<ColX>>, <<Const1, Const2>>}}

CallF1 == FunctionExpression("f", FALSE, FALSE, <<Const1>>)

\* Calls whose arguments hold calls, directly or below a cast.
NestedCalls ==
    {FunctionExpression("g", FALSE, FALSE, <<a>>) :
        a \in {CallF1, CastExpression(CallF1),
               FunctionExpression("+", TRUE, FALSE, <<CallF1, ColX>>)}}

\* Expressions that are not calls, with and without calls as operands.
NonCalls ==
    {ColX,
     CastExpression(CallF1),
     ComparisonExpression("COMPARE_GREATERTHAN",
                          FunctionExpression("f", FALSE, FALSE, <<ColX>>),
                          Const1),
     ComparisonExpression("COMPARE_GREATERTHAN", CallF1, Const1)}

FunctionItems == Calls \cup NestedCalls \cup NonCalls

SelectLists(items) == UNION {[1..k -> items] : k \in 0..MaxItems}

FunctionNodes ==
    {SelectNodeOf(l, f, NoExpression, <<>>) :
        l \in SelectLists(FunctionItems),
        f \in {EmptyTableRef, BaseTableRef("", "t")}}
    \cup {SelectNodeOf(<<Const1>>, f, w, g) :
            f \in {EmptyTableRef, BaseTableRef("", "t")},
            w \in NonCalls \cup {NoExpression, CallF1},
            g \in {<<>>, <<ColX>>, <<CallF1>>}}
    \cup {SetOperationNodeOf(SelectNodeOf(<<CallF1>>, EmptyTableRef,
                                          NoExpression, <<>>),
                             SelectNodeOf(<<Const1>>, EmptyTableRef,
                                          NoExpression, <<>>))}

(***************************************************************************)
(* parse_functions as the host drives it                                   *)
(***************************************************************************)
FunctionsInit ==
    /\ StripIdle
    /\ TokenizeIdle
    /\ StatementsIdle
    /\ TablesIdle
    /\ CapiIdle
    /\ binding \in {"c", "cpp"}
    /\ eq \in ExprEnvironments(binding, ExprQueries(FunctionNodes))
    /\ pf = [PfIdle EXCEPT !.status = "unbound"]
    /\ pw = PwIdle
    /\ pc = PcIdle

ParseFunctionsBind_c ==
    /\ binding = "c"
    /\ pf.status = "unbound"
    /\ pf' = [pf EXCEPT !.status = "bound",
                        !.functions = ParseFunctionsBindData_c(eq).functions,
                        !.error = ParseFunctionsBindData_c(eq).error]
    /\ UNCHANGED <<stripVars, binding, tokVars, stmtVars, tableVars, eq, pw, pc, capiVars>>

ParseFunctionsBind_cpp ==
    /\ binding = "cpp"
    /\ pf.status = "unbound"
    /\ pf' = [pf EXCEPT
                !.status = "bound",
                !.functions = ParseFunctionsBindData_cpp(eq.query).functions,
                !.error = ParseFunctionsBindData_cpp(eq.query).error]
    /\ UNCHANGED <<stripVars, binding, tokVars, stmtVars, tableVars, eq, pw, pc, capiVars>>

\* ParseFunctionsInit, both bindings: current_idx = 0.
ParseFunctionsInit ==
    /\ pf.status = "bound"
    /\ pf' = [pf EXCEPT !.status = "scan", !.current_idx = 0]
    /\ UNCHANGED <<stripVars, binding, tokVars, stmtVars, tableVars, eq, pw, pc, capiVars>>

\* ParseFunctionsFunc, the same loop in both bindings.
ParseFunctionsFunc ==
    /\ \/ pf.status = "scan"
       \/ pf.status = "drained" /\ pf.extra < MaxExtraCalls
    /\ pf' = AfterScanCall(pf, ParseFunctionsRows(pf))
    /\ UNCHANGED <<stripVars, binding, tokVars, stmtVars, tableVars, eq, pw, pc, capiVars>>

FunctionsNext ==
    \/ ParseFunctionsBind_c
    \/ ParseFunctionsBind_cpp
    \/ ParseFunctionsInit
    \/ ParseFunctionsFunc

SpecFunctions == FunctionsInit /\ [][FunctionsNext]_vars

(***************************************************************************)
(* parse_where: the queries                                                *)
(***************************************************************************)
\* The types a ComparisonExpression takes: six the operator table knows and
\* IS DISTINCT FROM, which it does not.
ComparisonTypes ==
    {"COMPARE_EQUAL", "COMPARE_NOTEQUAL", "COMPARE_LESSTHAN",
     "COMPARE_GREATERTHAN", "COMPARE_LESSTHANOREQUALTO",
     "COMPARE_GREATERTHANOREQUALTO", "COMPARE_DISTINCT_FROM"}

Comparisons ==
    {ComparisonExpression(t, o[1], o[2]) :
        t \in ComparisonTypes,
        o \in {<<ColX, Const1>>, <<Const1, Const2>>,
               <<FunctionExpression("f", FALSE, FALSE, <<ColX>>), ColY>>}}

XGreater1 == ComparisonExpression("COMPARE_GREATERTHAN", ColX, Const1)

YEqual2 == ComparisonExpression("COMPARE_EQUAL", ColY, Const2)

OneLess2 == ComparisonExpression("COMPARE_LESSTHAN", Const1, Const2)

\* The operands of the conjunctions: comparisons and an IN predicate.
Predicates ==
    {XGreater1, YEqual2, OneLess2,
     ComparisonExpression("COMPARE_DISTINCT_FROM", Const1, Const2),
     OperatorExpression("COMPARE_IN", <<ColX, Const1, Const2>>)}

Conjunctions ==
    {ConjunctionExpression(t, <<a, b>>) :
        t \in {"CONJUNCTION_AND", "CONJUNCTION_OR"},
        a \in Predicates, b \in Predicates}

\* Conjunctions of conjunctions, on the left, on the right and three wide.
NestedConjunctions ==
    {ConjunctionExpression(t, l) :
        t \in {"CONJUNCTION_AND", "CONJUNCTION_OR"},
        l \in {<<ConjunctionExpression("CONJUNCTION_OR",
                                       <<XGreater1, YEqual2>>), OneLess2>>,
               <<OneLess2, ConjunctionExpression("CONJUNCTION_AND",
                                                 <<XGreater1, YEqual2>>)>>,
               <<ConjunctionExpression("CONJUNCTION_AND",
                                       <<OneLess2, OneLess2>>),
                 ConjunctionExpression("CONJUNCTION_OR",
                                       <<OneLess2, OneLess2>>)>>,
               <<XGreater1, YEqual2, OneLess2>>}}

WhereClauses ==
    {NoExpression, ColX, CallF1}
    \cup Comparisons \cup Predicates \cup Conjunctions
    \cup NestedConjunctions

WhereNodes ==
    {SelectNodeOf(l, f, w, <<>>) :
        l \in {<<Const1>>, <<OneLess2>>},
        f \in {EmptyTableRef, BaseTableRef("", "t")},
        w \in WhereClauses}
    \cup {SetOperationNodeOf(SelectNodeOf(<<Const1>>, EmptyTableRef,
                                          OneLess2, <<>>),
                             SelectNodeOf(<<Const1>>, EmptyTableRef,
                                          NoExpression, <<>>))}

(***************************************************************************)
(* parse_where as the host drives it                                       *)
(***************************************************************************)
WhereInit ==
    /\ StripIdle
    /\ TokenizeIdle
    /\ StatementsIdle
    /\ TablesIdle
    /\ CapiIdle
    /\ binding \in {"c", "cpp"}
    /\ eq \in ExprEnvironments(binding, ExprQueries(WhereNodes))
    /\ pf = PfIdle
    /\ pw = [PwIdle EXCEPT !.status = "unbound"]
    /\ pc = PcIdle

ParseWhereBind_c ==
    /\ binding = "c"
    /\ pw.status = "unbound"
    /\ pw' = [pw EXCEPT !.status = "bound",
                        !.conditions = ParseWhereBindData_c(eq).conditions,
                        !.error = ParseWhereBindData_c(eq).error]
    /\ UNCHANGED <<stripVars, binding, tokVars, stmtVars, tableVars, eq, pf, pc, capiVars>>

ParseWhereBind_cpp ==
    /\ binding = "cpp"
    /\ pw.status = "unbound"
    /\ pw' = [pw EXCEPT
                !.status = "bound",
                !.conditions = ParseWhereBindData_cpp(eq.query).conditions,
                !.error = ParseWhereBindData_cpp(eq.query).error]
    /\ UNCHANGED <<stripVars, binding, tokVars, stmtVars, tableVars, eq, pf, pc, capiVars>>

\* ParseWhereInit, both bindings: current_idx = 0.
ParseWhereInit ==
    /\ pw.status = "bound"
    /\ pw' = [pw EXCEPT !.status = "scan", !.current_idx = 0]
    /\ UNCHANGED <<stripVars, binding, tokVars, stmtVars, tableVars, eq, pf, pc, capiVars>>

\* ParseWhereFunc, the same loop in both bindings.
ParseWhereFunc ==
    /\ \/ pw.status = "scan"
       \/ pw.status = "drained" /\ pw.extra < MaxExtraCalls
    /\ pw' = AfterScanCall(pw, ParseWhereRows(pw))
    /\ UNCHANGED <<stripVars, binding, tokVars, stmtVars, tableVars, eq, pf, pc, capiVars>>

WhereNext ==
    \/ ParseWhereBind_c
    \/ ParseWhereBind_cpp
    \/ ParseWhereInit
    \/ ParseWhereFunc

SpecWhere == WhereInit /\ [][WhereNext]_vars

(***************************************************************************)
(* parse_columns(query, stmt_index), C++ binding: the names of the SELECT  *)
(* list of one statement, read off the parsed expressions.                 *)
(***************************************************************************)
\* The * of a SELECT list.
StarExpression == [type |-> "STAR", class |-> "STAR", alias |-> ""]

Digits == <<"0", "1", "2", "3", "4", "5", "6", "7", "8", "9">>

\* std::to_string of an index: its decimal digits.
RECURSIVE to_string(_)
to_string(n) ==
    IF n < 10 THEN Digits[n + 1]
    ELSE to_string(n \div 10) \o Digits[(n % 10) + 1]

\* The name of the column by its kind alone, whatever the alias.
ExtractColumnNames_noalias(expr, index) ==
    IF expr.type = "NULLPTR" THEN <<>>
    ELSE IF expr.type = "COLUMN_REF" THEN <<expr.column_name>>
    ELSE IF expr.type = "FUNCTION" THEN <<expr.function_name>>
    ELSE <<"col" \o to_string(index)>>

\* parser.cpp ExtractColumnNames: what one item appends to the names.
ExtractColumnNames(expr, index) ==
    IF expr.type = "NULLPTR" THEN <<>>
    ELSE IF expr.alias # "" THEN <<expr.alias>>
    ELSE IF expr.type = "COLUMN_REF" THEN <<expr.column_name>>
    ELSE IF expr.type = "FUNCTION" THEN <<expr.function_name>>
    ELSE <<"col" \o to_string(index)>>

\* for (idx_t i = 0; i < snode.select_list.size(); i++), from item i on.
RECURSIVE ExtractColumnNamesFrom(_, _)
ExtractColumnNamesFrom(select_list, i) ==
    IF i >= Len(select_list) THEN <<>>
    ELSE ExtractColumnNames(select_list[i + 1], i)
         \o ExtractColumnNamesFrom(select_list, i + 1)

\* The values of idx_t. The type has 64 bits; the model keeps 30 of them,
\* the integers of the model checker having 32: a negative index still
\* wraps to a value far above any count of statements.
IdxModulus == 2 ^ 30

\* idx_t stmt_index = input.inputs[1].GetValue<int64_t>()
ToIdx(i) == i % IdxModulus

\* parser.cpp ParseColumnsBind
ParseColumnsBindData(q, stmt_index) ==
    IF q.kind = "error"
    THEN [col_names |-> <<>>, error |-> q.msg]
    ELSE IF ToIdx(stmt_index) < Len(q.statements)
            /\ q.statements[ToIdx(stmt_index) + 1].type = "SELECT_STATEMENT"
            /\ q.statements[ToIdx(stmt_index) + 1].node.type = "SELECT_NODE"
    THEN [col_names |->
            ExtractColumnNamesFrom(
                q.statements[ToIdx(stmt_index) + 1].node.select_list, 0),
          error |-> ""]
    ELSE [col_names |-> <<>>, error |-> ""]

\* ParseColumnsFunc: the row of the cursor position.
ParseColumnsRow(st, idx) ==
    [col_index |-> idx, col_name |-> st.col_names[idx + 1]]

\* ParseColumnsFunc: one vector of rows from the cursor on.
ParseColumnsRows(st) ==
    LET count == ChunkSize(Len(st.col_names), st.current_idx)
    IN  [rows |-> [n \in 1..count |->
                     ParseColumnsRow(st, st.current_idx + n - 1)],
         current_idx |-> st.current_idx + count]

ColA == ColumnRefExpression("a")

ColBAsC == WithAlias(ColumnRefExpression("b"), "c")

CountX == FunctionExpression("count", FALSE, FALSE, <<ColX>>)

\* The items of a SELECT list: of every kind, with and without an alias.
ColumnItems ==
    {ColA, ColBAsC, CountX, Const1, StarExpression,
     WithAlias(CountX, "n"), WithAlias(Const1, "one"),
     FunctionExpression("+", TRUE, FALSE, <<Const1, Const2>>)}

ColumnLists == UNION {[1..k -> ColumnItems] : k \in 0..MaxColumns}

ColumnNodes ==
    {SelectNodeOf(l, BaseTableRef("", "t"), NoExpression, <<>>) :
        l \in ColumnLists}

\* One statement, or a statement that is not a SELECT and then a SELECT.
ColumnQueries ==
    ExprQueries(ColumnNodes)
    \cup {[kind |-> "ok", msg |-> Null,
           statements |-> <<SelectStatement(
               SetOperationNodeOf(
                   SelectNodeOf(<<ColA>>, EmptyTableRef, NoExpression, <<>>),
                   SelectNodeOf(<<Const1>>, EmptyTableRef, NoExpression,
                                <<>>)))>>]}
    \cup {[kind |-> "ok", msg |-> Null,
           statements |-> <<OtherStatement,
                            SelectStatement(
                                SelectNodeOf(l, EmptyTableRef, NoExpression,
                                             <<>>))>>] :
            l \in {<<Const1>>, <<ColA, Const1>>}}

\* The statement indexes a caller gives, a negative one and one past the
\* statements included.
StmtIndexes == -1..MaxStmts

ColumnsInit ==
    /\ StripIdle
    /\ TokenizeIdle
    /\ StatementsIdle
    /\ TablesIdle
    /\ CapiIdle
    /\ binding = "cpp"
    /\ eq \in ExprEnvironments("cpp", ColumnQueries)
    /\ pf = PfIdle
    /\ pw = PwIdle
    /\ \E i \in StmtIndexes :
          pc = [PcIdle EXCEPT !.status = "unbound", !.stmt_index = i]

ParseColumnsBind ==
    /\ pc.status = "unbound"
    /\ pc' = [pc EXCEPT
                !.status = "bound",
                !.col_names =
                    ParseColumnsBindData(eq.query, pc.stmt_index).col_names,
                !.error = ParseColumnsBindData(eq.query, pc.stmt_index).error]
    /\ UNCHANGED <<stripVars, binding, tokVars, stmtVars, tableVars, eq, pf, pw, capiVars>>

\* ParseColumnsInit: current_idx = 0.
ParseColumnsInit ==
    /\ pc.status = "bound"
    /\ pc' = [pc EXCEPT !.status = "scan", !.current_idx = 0]
    /\ UNCHANGED <<stripVars, binding, tokVars, stmtVars, tableVars, eq, pf, pw, capiVars>>

ParseColumnsFunc ==
    /\ \/ pc.status = "scan"
       \/ pc.status = "drained" /\ pc.extra < MaxExtraCalls
    /\ pc' = AfterScanCall(pc, ParseColumnsRows(pc))
    /\ UNCHANGED <<stripVars, binding, tokVars, stmtVars, tableVars, eq, pf, pw, capiVars>>

ColumnsNext ==
    \/ ParseColumnsBind
    \/ ParseColumnsInit
    \/ ParseColumnsFunc

SpecColumns == ColumnsInit /\ [][ColumnsNext]_vars

(***************************************************************************)
(* parse_type_info (parser.c): the type of a result column rendered as     *)
(* text by SerializeLogicalType into buffers of fixed size.                *)
(*                                                                         *)
(* A logical type is a record: its type id and what the duckdb_*_type_*    *)
(* accessors give for it.                                                  *)
(***************************************************************************)
BaseType(id) == [id |-> id]

DecimalType(width, scale) ==
    [id |-> "DECIMAL", width |-> width, scale |-> scale]

ListType(child) == [id |-> "LIST", child |-> child]

ArrayType(child, size) == [id |-> "ARRAY", child |-> child, size |-> size]

MapType(key, val) == [id |-> "MAP", key |-> key, val |-> val]

StructType(names, types) ==
    [id |-> "STRUCT", names |-> names, types |-> types]

UnionType(names, types) ==
    [id |-> "UNION", names |-> names, types |-> types]

EnumType(values) == [id |-> "ENUM", values |-> values]

\* parser.c TypeToString, for the type ids of the model.
TypeToString(id) ==
    CASE id \in {"BOOLEAN", "INTEGER", "BIGINT", "DOUBLE", "VARCHAR", "DATE",
                 "DECIMAL", "ENUM", "LIST", "STRUCT", "MAP", "ARRAY", "UUID",
                 "UNION"}
           -> id
      [] OTHER -> "UNKNOWN"

\* char full_type_buf[1024] of ParseTypeFunc
FullTypeBufSize == 1024

\* char child_buf[512] of the LIST and ARRAY cases
ListChildBufSize == 512

\* char key_buf[256], val_buf[256], child_buf[256], member_buf[256]
ChildBufSize == 256

\* offset < buf_size - 10: the room the STRUCT and UNION loops ask for
FieldMargin == 10

\* offset < buf_size - 20: the room the ENUM loop asks for
EnumMargin == 20

\* i < 10: the values of an ENUM that are listed
EnumListed == 10

\* A buffer no snprintf has written yet, and the running offset into it.
\* ub: a call was made with offset > buf_size, that is with a pointer past
\* the buffer and a size argument that wrapped around.
EmptyBuf == [buf |-> "", offset |-> 0, ub |-> FALSE]

\* offset += snprintf(buf + offset, buf_size - offset, "%s", text): at most
\* buf_size - offset - 1 characters are stored, the length of the whole text
\* is returned. buf holds the characters before the terminating NUL.
Snprintf(st, buf_size, text) ==
    IF st.offset > buf_size
    THEN [st EXCEPT !.offset = @ + Len(text), !.ub = TRUE]
    ELSE IF st.offset = buf_size
    THEN [st EXCEPT !.offset = @ + Len(text)]
    ELSE [st EXCEPT
            !.buf = @ \o (IF Len(text) <= buf_size - st.offset - 1
                          THEN text
                          ELSE SubSeq(text, 1, buf_size - st.offset - 1)),
            !.offset = @ + Len(text)]

RECURSIVE SerializeLogicalType(_, _)
RECURSIVE SerializeFields(_, _, _, _)
RECURSIVE SerializeEnumValues(_, _, _, _)

\* The STRUCT and UNION loops from field i on.
SerializeFields(type, i, st, buf_size) ==
    IF i < Len(type.names) /\ st.offset < buf_size - FieldMargin
    THEN LET st1 == IF i > 0 THEN Snprintf(st, buf_size, ", ") ELSE st
             child == SerializeLogicalType(type.types[i + 1], ChildBufSize)
             st2 == Snprintf(st1, buf_size,
                             type.names[i + 1] \o " " \o child.buf)
         IN  SerializeFields(type, i + 1,
                             [st2 EXCEPT !.ub = @ \/ child.ub], buf_size)
    ELSE st

\* The ENUM loop from value i on.
SerializeEnumValues(type, i, st, buf_size) ==
    IF i < Len(type.values) /\ i < EnumListed
       /\ st.offset < buf_size - EnumMargin
    THEN LET st1 == IF i > 0 THEN Snprintf(st, buf_size, ", ") ELSE st
             st2 == Snprintf(st1, buf_size,
                             "'" \o type.values[i + 1] \o "'")
         IN  SerializeEnumValues(type, i + 1, st2, buf_size)
    ELSE st

\* parser.c SerializeLogicalType: the text left in buf.
SerializeLogicalType(type, buf_size) ==
    CASE type.id = "DECIMAL" ->
           Snprintf(EmptyBuf, buf_size,
                    "DECIMAL(" \o to_string(type.width) \o ","
                    \o to_string(type.scale) \o ")")
      [] type.id = "LIST" ->
           LET child == SerializeLogicalType(type.child, ListChildBufSize)
           IN  [Snprintf(EmptyBuf, buf_size, child.buf \o "[]")
                  EXCEPT !.ub = child.ub]
      [] type.id = "ARRAY" ->
           LET child == SerializeLogicalType(type.child, ListChildBufSize)
           IN  [Snprintf(EmptyBuf, buf_size,
                         child.buf \o "[" \o to_string(type.size) \o "]")
                  EXCEPT !.ub = child.ub]
      [] type.id = "MAP" ->
           LET key == SerializeLogicalType(type.key, ChildBufSize)
               val == SerializeLogicalType(type.val, ChildBufSize)
           IN  [Snprintf(EmptyBuf, buf_size,
                         "MAP(" \o key.buf \o ", " \o val.buf \o ")")
                  EXCEPT !.ub = key.ub \/ val.ub]
      [] type.id \in {"STRUCT", "UNION"} ->
           Snprintf(SerializeFields(type, 0,
                                    Snprintf(EmptyBuf, buf_size,
                                             type.id \o "("),
                                    buf_size),
                    buf_size, ")")
      [] type.id = "ENUM" ->
           LET listed == SerializeEnumValues(type, 0,
                                             Snprintf(EmptyBuf, buf_size,
                                                      "ENUM("),
                                             buf_size)
               more == IF Len(type.values) > EnumListed
                       THEN Snprintf(listed, buf_size,
                                     ", ... +"
                                     \o to_string(Len(type.values)
                                                  - EnumListed)
                                     \o " more")
                       ELSE listed
           IN  Snprintf(more, buf_size, ")")
      [] OTHER -> Snprintf(EmptyBuf, buf_size, TypeToString(type.id))

\* ParseTypeFunc: the row of the column's type.
ParseTypeRow(col_type) ==
    [base_type |-> TypeToString(col_type.id),
     full_type |-> SerializeLogicalType(col_type, FullTypeBufSize).buf,
     nullable |-> "YES",
     precision |-> IF col_type.id = "DECIMAL" THEN col_type.width ELSE Null,
     scale |-> IF col_type.id = "DECIMAL" THEN col_type.scale ELSE Null,
     child_count |-> IF col_type.id \in {"STRUCT", "UNION"}
                     THEN Len(col_type.names) ELSE Null]

\* What a call that serializes the type can do: return, or, where a write
\* went past a buffer, return or be stopped by the stack protector.
ParseTypeOutcomes(col_type) ==
    IF SerializeLogicalType(col_type, FullTypeBufSize).ub
    THEN {"row", "abort"}
    ELSE {"row"}

FieldName(i) == "f" \o to_string(i)

ShortValue(i) == "v" \o to_string(i)

LongValue(i) == "AWAITING_CUSTOMER_CONFIRMATION_" \o to_string(i)

\* A dictionary value of some 130 characters.
VeryLongValue(i) ==
    LongValue(i) \o LongValue(i) \o LongValue(i) \o LongValue(i)

ScalarTypes ==
    {BaseType("INTEGER"), BaseType("VARCHAR"), BaseType("UUID"),
     BaseType("VARINT"), DecimalType(18, 3)}

\* STRUCT and UNION types of k fields f1 .. fk of one type.
WideTypes ==
    {StructType([i \in 1..k |-> FieldName(i)], [i \in 1..k |-> t]) :
        k \in 0..MaxFields, t \in {BaseType("INTEGER"), DecimalType(18, 3)}}
    \cup {UnionType([i \in 1..k |-> FieldName(i)],
                    [i \in 1..k |-> BaseType("INTEGER")]) :
            k \in 1..MaxFields}

\* ENUM types of n values: short ones, long ones or very long ones.
EnumTypes ==
    {EnumType([i \in 1..n |-> ShortValue(i)]) : n \in 0..MaxEnum}
    \cup {EnumType([i \in 1..n |-> LongValue(i)]) : n \in 1..MaxEnum}
    \cup {EnumType([i \in 1..n |-> VeryLongValue(i)]) : n \in 1..MaxEnum}

FlatTypes ==
    ScalarTypes \cup WideTypes \cup EnumTypes
    \cup {ListType(t) : t \in ScalarTypes}
    \cup {ArrayType(t, 3) : t \in ScalarTypes}
    \cup {MapType(k, v) : k \in {BaseType("VARCHAR")}, v \in ScalarTypes}

\* The types of the model: the flat ones, and each of them as the child of
\* a LIST, the value of a MAP and a field of a STRUCT.
LogicalTypes ==
    FlatTypes
    \cup {ListType(t) : t \in FlatTypes}
    \cup {MapType(BaseType("VARCHAR"), t) : t \in FlatTypes}
    \cup {StructType(<<"a", "b">>, <<t, BaseType("INTEGER")>>) :
            t \in FlatTypes}

TypeInit ==
    /\ StripIdle
    /\ TokenizeIdle
    /\ StatementsIdle
    /\ TablesIdle
    /\ ExprIdle
    /\ binding = "c"
    /\ kw = KwIdle
    /\ rs = RsIdle
    /\ sk = SkIdle
    /\ vs = VsIdle
    /\ \/ ty = [TyIdle EXCEPT !.status = "bound"]
       \/ \E t \in LogicalTypes :
             ty = [TyIdle EXCEPT !.status = "bound", !.has_type = TRUE,
                                 !.col_type = t]

\* ParseTypeInit: done = false.
ParseTypeInit ==
    /\ ty.status = "bound"
    /\ ty' = [ty EXCEPT !.status = "scan", !.done = FALSE]
    /\ UNCHANGED <<stripVars, binding, tokVars, stmtVars, tableVars, exprVars, kw, rs, sk, vs>>

\* ParseTypeFunc: nothing when done or without a type, else the one row.
ParseTypeFunc ==
    /\ ty.status = "scan"
    /\ IF ty.done \/ ~ty.has_type
       THEN ty' = [ty EXCEPT !.status = "drained"]
       ELSE \E o \in ParseTypeOutcomes(ty.col_type) :
               ty' = IF o = "abort"
                     THEN [ty EXCEPT !.status = "aborted"]
                     ELSE [ty EXCEPT !.done = TRUE,
                                     !.rows = @ \o <<ParseTypeRow(ty.col_type)>>]
    /\ UNCHANGED <<stripVars, binding, tokVars, stmtVars, tableVars, exprVars, kw, rs, sk, vs>>

TypeNext ==
    \/ ParseTypeInit
    \/ ParseTypeFunc

SpecType == TypeInit /\ [][TypeNext]_vars

(***************************************************************************)
(* is_keyword(identifier): a scalar function over a chunk of rows.         *)
(***************************************************************************)
\* parser.c SQL_KEYWORDS
SQL_KEYWORDS ==
    <<"ALL", "ALTER", "AND", "ANY", "AS", "ASC", "BETWEEN", "BY", "CASE",
      "CAST", "CHECK", "COLUMN", "CONSTRAINT", "CREATE", "CROSS",
      "CURRENT_DATE", "CURRENT_TIME", "CURRENT_TIMESTAMP", "DEFAULT",
      "DELETE", "DESC", "DISTINCT", "DROP", "ELSE", "END", "EXCEPT", "EXISTS",
      "FALSE", "FILTER", "FOLLOWING", "FOR", "FOREIGN", "FROM", "FULL",
      "GROUP", "HAVING", "IF", "IN", "INDEX", "INNER", "INSERT", "INTERSECT",
      "INTO", "IS", "JOIN", "KEY", "LEFT", "LIKE", "LIMIT", "NATURAL", "NOT",
      "NULL", "OFFSET", "ON", "OR", "ORDER", "OUTER", "OVER", "PARTITION",
      "PRECEDING", "PRIMARY", "QUALIFY", "RANGE", "RECURSIVE", "REFERENCES",
      "RETURNING", "RIGHT", "ROWS", "SELECT", "SET", "TABLE", "THEN", "TRUE",
      "UNBOUNDED", "UNION", "UNIQUE", "UPDATE", "USING", "VALUES", "WHEN",
      "WHERE", "WINDOW", "WITH">>

\* The characters 'a' .. 'z' and, 32 below each, 'A' .. 'Z'.
LowerCase ==
    <<"a", "b", "c", "d", "e", "f", "g", "h", "i", "j", "k", "l", "m", "n",
      "o", "p", "q", "r", "s", "t", "u", "v", "w", "x", "y", "z">>

UpperCase ==
    <<"A", "B", "C", "D", "E", "F", "G", "H", "I", "J", "K", "L", "M", "N",
      "O", "P", "Q", "R", "S", "T", "U", "V", "W", "X", "Y", "Z">>

\* if (*p >= 'a' && *p <= 'z') *p -= 32;
ToUpperChar(ch) ==
    IF \E n \in 1..26 : LowerCase[n] = ch
    THEN UpperCase[CHOOSE n \in 1..26 : LowerCase[n] = ch]
    ELSE ch

\* for (char *p = identifier; *p; p++) ...
RECURSIVE ToUpperString(_)
ToUpperString(text) ==
    IF text = "" THEN ""
    ELSE ToUpperChar(SubSeq(text, 1, 1))
         \o ToUpperString(SubSeq(text, 2, Len(text)))

\* The identifier compared as it is given.
IsKeyword_c_asgiven(identifier) ==
    \E i \in 1..Len(SQL_KEYWORDS) : identifier = SQL_KEYWORDS[i]

\* parser.c IsKeywordFunction, one valid row.
IsKeyword_c(identifier) ==
    \E i \in 1..Len(SQL_KEYWORDS) :
        ToUpperString(identifier) = SQL_KEYWORDS[i]

\* ScanKeywordLookup of the DuckDB parser downcases 'A' .. 'Z'.
ToLowerChar(ch) ==
    IF \E n \in 1..26 : UpperCase[n] = ch
    THEN LowerCase[CHOOSE n \in 1..26 : UpperCase[n] = ch]
    ELSE ch

RECURSIVE ToLowerString(_)
ToLowerString(text) ==
    IF text = "" THEN ""
    ELSE ToLowerChar(SubSeq(text, 1, 1))
         \o ToLowerString(SubSeq(text, 2, Len(text)))

\* The keyword table of the DuckDB parser, in lower case: the words of the
\* model that are in it.
ScanKeywords ==
    {ToLowerString(SQL_KEYWORDS[i]) : i \in 1..Len(SQL_KEYWORDS)}
    \cup {"analyze", "abort"}

\* parser.cpp IsKeywordFunc: KeywordHelper::IsKeyword(str.GetString())
IsKeyword_cpp(identifier) == ToLowerString(identifier) \in ScanKeywords

\* One row of the result: NULL for a NULL row.
IsKeywordRow(b, identifier) ==
    IF identifier = Null THEN Null
    ELSE IF b = "c" THEN IsKeyword_c(identifier)
    ELSE IsKeyword_cpp(identifier)

\* Every way of writing a word in upper and lower case letters.
RECURSIVE LetterCases(_)
LetterCases(word) ==
    IF word = "" THEN {""}
    ELSE {ch \o rest :
            ch \in {ToUpperChar(SubSeq(word, 1, 1)),
                    ToLowerChar(SubSeq(word, 1, 1))},
            rest \in LetterCases(SubSeq(word, 2, Len(word)))}

\* The arguments of the model: keywords in every letter case, words that
\* are no keywords, the empty string.
Identifiers ==
    LetterCases("select") \cup LetterCases("as") \cup LetterCases("from")
    \cup {"CURRENT_DATE", "current_date", "Current_Date",
          "myidentifier", "MYIDENTIFIER", "MyIdentifier",
          "selec", "selects", "SELECTS", "se_lect", "a", "A", "", "x1"}

\* The chunks of the model: an identifier and the same in upper case, in
\* lower case or a NULL row, and chunks of one NULL row and of no row.
IdentifierChunks(s) ==
    {<<s, ToUpperString(s)>>, <<s, ToLowerString(s)>>, <<s, Null>>}

KeywordChunks ==
    UNION {IdentifierChunks(s) : s \in Identifiers} \cup {<<Null>>, <<>>}

KeywordInit ==
    /\ StripIdle
    /\ TokenizeIdle
    /\ StatementsIdle
    /\ TablesIdle
    /\ ExprIdle
    /\ binding \in {"c", "cpp"}
    /\ ty = TyIdle
    /\ rs = RsIdle
    /\ sk = SkIdle
    /\ vs = VsIdle
    /\ \E chunk \in KeywordChunks :
          kw = [KwIdle EXCEPT !.status = "called", !.input = chunk]

\* IsKeywordFunction (parser.c), IsKeywordFunc (parser.cpp): every row of
\* the chunk.
IsKeywordFunction ==
    /\ kw.status = "called"
    /\ kw' = [kw EXCEPT
                !.status = "returned",
                !.result = [row \in 1..Len(kw.input) |->
                              IsKeywordRow(binding, kw.input[row])]]
    /\ UNCHANGED <<stripVars, binding, tokVars, stmtVars, tableVars, exprVars, ty, rs, sk, vs>>

KeywordNext == IsKeywordFunction

SpecKeyword == KeywordInit /\ [][KeywordNext]_vars

(***************************************************************************)
(* The handles of the scratch database (parser.c): which calls acquire     *)
(* them and which release them, for parse_statements, sql_parse_json,      *)
(* is_valid_sql and parse_columns.                                         *)
(*                                                                         *)
(* rs.db, rs.conn, rs.stmts, rs.prepared, rs.result: the handle variable   *)
(* is not NULL. rs.log: the acquisitions and releases made, in order.      *)
(***************************************************************************)
Acquire(res) == <<[op |-> "acquire", res |-> res]>>

Release(res) == <<[op |-> "release", res |-> res]>>

\* What duckdb_prepare_extracted_statement gives for a statement: success,
\* a prepared statement that holds an error, or no prepared statement.
PrepareOutcomes == {"ok", "error", "null"}

\* What a row of a scalar function's chunk is: NULL, a text the engine
\* takes, a text it fails on.
RowKinds == {"null", "ok", "fail"}

SeqsUpTo(S, n) == UNION {[1..k -> S] : k \in 0..n}

\* The ways the scratch database opens and connects: tried in this order.
OpenOutcomes == {<<TRUE, TRUE>>, <<TRUE, FALSE>>, <<FALSE, FALSE>>}

ResourceEnvironments(fn) ==
    {[open_ok |-> o[1], connect_ok |-> o[2], stmts |-> st,
      stmt_index |-> i, execute_ok |-> x, rows |-> rows] :
        o \in OpenOutcomes,
        st \in IF fn \in {"parse_statements", "parse_columns"}
               THEN SeqsUpTo(PrepareOutcomes, MaxStmts) ELSE {<<>>},
        i \in IF fn = "parse_columns" THEN 0..1 ELSE {0},
        x \in IF fn = "parse_columns" THEN BOOLEAN ELSE {TRUE},
        rows \in IF fn \in {"sql_parse_json", "is_valid_sql"}
                 THEN SeqsUpTo(RowKinds, MaxRows) ELSE {<<>>}}

ResourceFunctions ==
    {"parse_statements", "sql_parse_json", "is_valid_sql", "parse_columns"}

\* parser.c ParseStatementsBind, from duckdb_open on: the handles of the
\* bind data and the calls that gave them.
ParseStatementsBindHandles(st) ==
    IF ~st.env.open_ok
    THEN [st EXCEPT !.status = "bound"]
    ELSE IF ~st.env.connect_ok
    THEN [st EXCEPT !.status = "bound", !.db = TRUE,
                    !.log = @ \o Acquire("db")]
    ELSE [st EXCEPT !.status = "bound", !.db = TRUE, !.conn = TRUE,
                    !.stmts = TRUE, !.stmt_count = Len(st.env.stmts),
                    !.log = @ \o Acquire("db") \o Acquire("conn")
                              \o Acquire("stmts")]

\* parser.c ParseStatementsFunc: the row of statement i prepares the
\* statement and destroys what the prepare gave.
ParseStatementsRowLog(outcome) ==
    IF outcome = "ok" THEN Acquire("prepared") \o Release("prepared")
    ELSE IF outcome = "error" THEN Acquire("prepared") \o Release("prepared")
    ELSE <<>>

RECURSIVE ParseStatementsChunkLog(_, _, _)
ParseStatementsChunkLog(st, from, count) ==
    IF count = 0 THEN <<>>
    ELSE ParseStatementsRowLog(st.env.stmts[from + 1])
         \o ParseStatementsChunkLog(st, from + 1, count - 1)

\* parser.c ParseStatementsFunc: one call.
ParseStatementsFuncHandles(st) ==
    IF st.stmt_count = 0
    THEN [st EXCEPT !.status = "drained"]
    ELSE LET count == ChunkSize(st.stmt_count, st.current_idx)
         IN  [st EXCEPT
                !.status = IF count = 0 THEN "drained" ELSE "scan",
                !.current_idx = @ + count,
                !.log = @ \o ParseStatementsChunkLog(st, st.current_idx,
                                                     count)]

\* parser.c ParseStatementsBindDataDestroy
ParseStatementsDestroyHandles(st) ==
    [st EXCEPT
       !.status = "finished",
       !.stmts = FALSE, !.conn = FALSE, !.db = FALSE,
       !.log = @ \o (IF st.stmts THEN Release("stmts") ELSE <<>>)
                 \o (IF st.conn THEN Release("conn") ELSE <<>>)
                 \o (IF st.db THEN Release("db") ELSE <<>>)]

\* parser.c SqlParseJsonFunction: the rows of the chunk. duckdb_query
\* gives a result to destroy whether it succeeds or fails.
RECURSIVE SqlParseJsonRowsLog(_)
SqlParseJsonRowsLog(rows) ==
    IF rows = <<>> THEN <<>>
    ELSE (IF Head(rows) = "null" THEN <<>>
          ELSE Acquire("result") \o Release("result"))
         \o SqlParseJsonRowsLog(Tail(rows))

\* parser.c SqlParseJsonFunction
SqlParseJsonHandles(st) ==
    IF ~st.env.open_ok
    THEN [st EXCEPT !.status = "finished"]
    ELSE IF ~st.env.connect_ok
    THEN [st EXCEPT !.status = "finished",
                    !.log = @ \o Acquire("db") \o Release("db")]
    ELSE [st EXCEPT
            !.status = "finished",
            !.log = @ \o Acquire("db") \o Acquire("conn")
                      \o SqlParseJsonRowsLog(st.env.rows)
                      \o Release("conn") \o Release("db")]

\* parser.c IsValidSqlFunction: the rows of the chunk.
RECURSIVE IsValidSqlRowsLog(_, _)
IsValidSqlRowsLog(rows, have_conn) ==
    IF rows = <<>> THEN <<>>
    ELSE (IF Head(rows) = "null" \/ ~have_conn THEN <<>>
          ELSE Acquire("stmts") \o Release("stmts"))
         \o IsValidSqlRowsLog(Tail(rows), have_conn)

\* parser.c IsValidSqlFunction
IsValidSqlHandles(st) ==
    LET db == st.env.open_ok
        conn == st.env.open_ok /\ st.env.connect_ok
        have_conn == st.env.open_ok /\ st.env.connect_ok
    IN  [st EXCEPT
           !.status = "finished",
           !.log = @ \o (IF db THEN Acquire("db") ELSE <<>>)
                     \o (IF conn THEN Acquire("conn") ELSE <<>>)
                     \o IsValidSqlRowsLog(st.env.rows, have_conn)
                     \o (IF conn THEN Release("conn") ELSE <<>>)
                     \o (IF db THEN Release("db") ELSE <<>>)]

\* parser.c ParseColumnsBind: the handles of the bind data and the calls
\* that gave them. duckdb_execute_prepared gives a result whether it
\* succeeds or fails; has_result is set when it succeeds.
ParseColumnsBindHandles(st) ==
    LET e == st.env
        connected == e.open_ok /\ e.connect_ok
        count == IF connected THEN Len(e.stmts) ELSE 0
        prepares == connected /\ count > 0 /\ e.stmt_index < count
        outcome == IF prepares THEN e.stmts[e.stmt_index + 1] ELSE "null"
        executes == prepares /\ outcome = "ok"
    IN  [st EXCEPT
           !.status = "bound",
           !.db = e.open_ok,
           !.conn = connected,
           !.stmts = connected,
           !.prepared = prepares /\ outcome # "null",
           !.result = executes,
           !.has_result = executes /\ e.execute_ok,
           !.log = @ \o (IF e.open_ok THEN Acquire("db") ELSE <<>>)
                     \o (IF connected
                         THEN Acquire("conn") \o Acquire("stmts") ELSE <<>>)
                     \o (IF prepares /\ outcome # "null"
                         THEN Acquire("prepared") ELSE <<>>)
                     \o (IF executes THEN Acquire("result") ELSE <<>>)]

\* parser.c ParseColumnsBindDataDestroy
ParseColumnsDestroyHandles(st) ==
    [st EXCEPT
       !.status = "finished",
       !.result = IF st.has_result THEN FALSE ELSE @,
       !.prepared = FALSE, !.stmts = FALSE, !.conn = FALSE, !.db = FALSE,
       !.log = @ \o (IF st.has_result THEN Release("result") ELSE <<>>)
                 \o (IF st.prepared THEN Release("prepared") ELSE <<>>)
                 \o (IF st.stmts THEN Release("stmts") ELSE <<>>)
                 \o (IF st.conn THEN Release("conn") ELSE <<>>)
                 \o (IF st.db THEN Release("db") ELSE <<>>)]

ResourceInit ==
    /\ StripIdle
    /\ TokenizeIdle
    /\ StatementsIdle
    /\ TablesIdle
    /\ ExprIdle
    /\ binding = "c"
    /\ ty = TyIdle
    /\ kw = KwIdle
    /\ sk = SkIdle
    /\ vs = VsIdle
    /\ \E fn \in ResourceFunctions :
          \E e \in ResourceEnvironments(fn) :
             rs = [RsIdle EXCEPT !.fn = fn, !.status = "called", !.env = e]

ParseStatementsBind_handles ==
    /\ rs.fn = "parse_statements"
    /\ rs.status = "called"
    /\ rs' = ParseStatementsBindHandles(rs)
    /\ UNCHANGED <<stripVars, binding, tokVars, stmtVars, tableVars, exprVars, ty, kw, sk, vs>>

ParseStatementsFunc_handles ==
    /\ rs.fn = "parse_statements"
    /\ rs.status \in {"bound", "scan"}
    /\ rs' = ParseStatementsFuncHandles(rs)
    /\ UNCHANGED <<stripVars, binding, tokVars, stmtVars, tableVars, exprVars, ty, kw, sk, vs>>

\* The host destroys the bind data once the scan is over, or without a scan.
ParseStatementsBindDataDestroy ==
    /\ rs.fn = "parse_statements"
    /\ rs.status \in {"bound", "drained"}
    /\ rs' = ParseStatementsDestroyHandles(rs)
    /\ UNCHANGED <<stripVars, binding, tokVars, stmtVars, tableVars, exprVars, ty, kw, sk, vs>>

SqlParseJsonFunction ==
    /\ rs.fn = "sql_parse_json"
    /\ rs.status = "called"
    /\ rs' = SqlParseJsonHandles(rs)
    /\ UNCHANGED <<stripVars, binding, tokVars, stmtVars, tableVars, exprVars, ty, kw, sk, vs>>

IsValidSqlFunction ==
    /\ rs.fn = "is_valid_sql"
    /\ rs.status = "called"
    /\ rs' = IsValidSqlHandles(rs)
    /\ UNCHANGED <<stripVars, binding, tokVars, stmtVars, tableVars, exprVars, ty, kw, sk, vs>>

ParseColumnsBind_c ==
    /\ rs.fn = "parse_columns"
    /\ rs.status = "called"
    /\ rs' = ParseColumnsBindHandles(rs)
    /\ UNCHANGED <<stripVars, binding, tokVars, stmtVars, tableVars, exprVars, ty, kw, sk, vs>>

ParseColumnsBindDataDestroy ==
    /\ rs.fn = "parse_columns"
    /\ rs.status = "bound"
    /\ rs' = ParseColumnsDestroyHandles(rs)
    /\ UNCHANGED <<stripVars, binding, tokVars, stmtVars, tableVars, exprVars, ty, kw, sk, vs>>

ResourceNext ==
    \/ ParseStatementsBind_handles
    \/ ParseStatementsFunc_handles
    \/ ParseStatementsBindDataDestroy
    \/ SqlParseJsonFunction
    \/ IsValidSqlFunction
    \/ ParseColumnsBind_c
    \/ ParseColumnsBindDataDestroy

SpecResource == ResourceInit /\ [][ResourceNext]_vars

(***************************************************************************)
(* sql_keywords: bind, init, then scan calls. parser.c scans the array     *)
(* SQL_KEYWORDS; parser.cpp binds the names Parser::KeywordList returns, a *)
(* list of the DuckDB library (here: the first words of SQL_KEYWORDS).     *)
(***************************************************************************)
KeywordLists == {SubSeq(SQL_KEYWORDS, 1, n) : n \in 1..MaxKeywords}

KeywordListInit ==
    /\ StripIdle
    /\ binding \in {"c", "cpp"}
    /\ TokenizeIdle
    /\ StatementsIdle
    /\ TablesIdle
    /\ ExprIdle
    /\ ty = TyIdle
    /\ kw = KwIdle
    /\ rs = RsIdle
    /\ sk = [SkIdle EXCEPT !.status = "unbound"]
    /\ vs = VsIdle

\* parser.c: the bind function adds the result column; the records are the
\* NUM_SQL_KEYWORDS entries of the array.
SqlKeywordsBind_c ==
    /\ binding = "c"
    /\ sk.status = "unbound"
    /\ sk' = [sk EXCEPT !.status = "bound", !.keywords = SQL_KEYWORDS]
    /\ UNCHANGED <<stripVars, binding, tokVars, stmtVars, tableVars, exprVars, ty, kw, rs, vs>>

SqlKeywordsBind_cpp ==
    /\ binding = "cpp"
    /\ sk.status = "unbound"
    /\ \E list \in KeywordLists :
         sk' = [sk EXCEPT !.status = "bound", !.keywords = list]
    /\ UNCHANGED <<stripVars, binding, tokVars, stmtVars, tableVars, exprVars, ty, kw, rs, vs>>

SqlKeywordsInit ==
    /\ sk.status = "bound"
    /\ sk' = [sk EXCEPT !.status = "scan", !.current_idx = 0]
    /\ UNCHANGED <<stripVars, binding, tokVars, stmtVars, tableVars, exprVars, ty, kw, rs, vs>>

\* SqlKeywordsFunc, both bindings: one vector of rows from the cursor on.
SqlKeywordsRows(st) ==
    LET count == ChunkSize(Len(st.keywords), st.current_idx)
    IN  [rows |-> [n \in 1..count |->
                     [keyword |-> st.keywords[st.current_idx + n]]],
         current_idx |-> st.current_idx + count]

SqlKeywordsFunc ==
    /\ \/ sk.status = "scan"
       \/ sk.status = "drained" /\ sk.extra < MaxExtraCalls
    /\ sk' = AfterScanCall(sk, SqlKeywordsRows(sk))
    /\ UNCHANGED <<stripVars, binding, tokVars, stmtVars, tableVars, exprVars, ty, kw, rs, vs>>

KeywordListNext ==
    \/ SqlKeywordsBind_c
    \/ SqlKeywordsBind_cpp
    \/ SqlKeywordsInit
    \/ SqlKeywordsFunc

(***************************************************************************)
(* The table functions, one of them bound and scanned per behaviour        *)
(***************************************************************************)
ScanInit ==
    \/ TokInit
    \/ KeywordListInit
    \/ StmtInit
    \/ TablesInit
    \/ FunctionsInit
    \/ WhereInit
    \/ ColumnsInit

ScanNext ==
    \/ TokNext
    \/ KeywordListNext
    \/ StmtNext
    \/ TablesNext
    \/ FunctionsNext
    \/ WhereNext
    \/ ColumnsNext

SpecScan == ScanInit /\ [][ScanNext]_vars

(***************************************************************************)
(* is_valid_sql, sql_error_message and num_statements on one non-NULL      *)
(* text, in any order. parser.c asks duckdb_extract_statements of a        *)
(* scratch connection for the number of statements; parser.cpp calls       *)
(* Parser::ParseQuery and catches what it throws.                          *)
(***************************************************************************)
\* have_conn of the three C functions
HaveConn(env) == env.open_ok /\ env.connect_ok

\* idx_t count = duckdb_extract_statements(conn, sql, &stmts): 0 when the text
\* does not parse
ExtractedCount(env) == Len(env.parse.stmts)

\* parser.c IsValidSqlFunction: result_data[row] = (count > 0)
IsValidSqlRow_c(env) ==
    IF ~HaveConn(env) THEN FALSE ELSE ExtractedCount(env) > 0

\* parser.c SqlErrorMessageFunction: the message of
\* duckdb_extract_statements_error when count is 0 and there is one, else
\* NULL.
SqlErrorMessageRow_c(env) ==
    IF ~HaveConn(env) THEN "Failed to create parser connection"
    ELSE IF ExtractedCount(env) = 0
    THEN (IF env.parse.kind = "error" THEN env.parse.msg ELSE Null)
    ELSE Null

\* parser.c NumStatementsFunction
NumStatementsRow_c(env) ==
    IF ~HaveConn(env) THEN 0 ELSE ExtractedCount(env)

\* parser.cpp IsValidSqlFunc: true unless ParseQuery throws
IsValidSqlRow_cpp(env) == env.parse.kind # "error"

\* parser.cpp SqlErrorMessageFunc: NULL unless ParseQuery throws, then
\* e.what()
SqlErrorMessageRow_cpp(env) ==
    IF env.parse.kind = "error" THEN env.parse.msg ELSE Null

\* parser.cpp NumStatementsFunc: parser.statements.size(), 0 when ParseQuery
\* throws
NumStatementsRow_cpp(env) ==
    IF env.parse.kind = "error" THEN 0 ELSE Len(env.parse.stmts)

ValidInit ==
    /\ StripIdle
    /\ binding \in {"c", "cpp"}
    /\ TokenizeIdle
    /\ px \in Environments(binding)
    /\ ps = PsIdle
    /\ TablesIdle
    /\ ExprIdle
    /\ ty = TyIdle
    /\ kw = KwIdle
    /\ rs = RsIdle
    /\ sk = SkIdle
    /\ vs = VsIdle

IsValidSql_c ==
    /\ binding = "c"
    /\ "is_valid_sql" \notin vs.calls
    /\ vs' = [vs EXCEPT !.calls = @ \cup {"is_valid_sql"},
                        !.is_valid = IsValidSqlRow_c(px)]
    /\ UNCHANGED <<stripVars, binding, tokVars, stmtVars, tableVars, exprVars, ty, kw, rs, sk>>

IsValidSql_cpp ==
    /\ binding = "cpp"
    /\ "is_valid_sql" \notin vs.calls
    /\ vs' = [vs EXCEPT !.calls = @ \cup {"is_valid_sql"},
                        !.is_valid = IsValidSqlRow_cpp(px)]
    /\ UNCHANGED <<stripVars, binding, tokVars, stmtVars, tableVars, exprVars, ty, kw, rs, sk>>

SqlErrorMessage_c ==
    /\ binding = "c"
    /\ "sql_error_message" \notin vs.calls
    /\ vs' = [vs EXCEPT !.calls = @ \cup {"sql_error_message"},
                        !.error_message = SqlErrorMessageRow_c(px)]
    /\ UNCHANGED <<stripVars, binding, tokVars, stmtVars, tableVars, exprVars, ty, kw, rs, sk>>

SqlErrorMessage_cpp ==
    /\ binding = "cpp"
    /\ "sql_error_message" \notin vs.calls
    /\ vs' = [vs EXCEPT !.calls = @ \cup {"sql_error_message"},
                        !.error_message = SqlErrorMessageRow_cpp(px)]
    /\ UNCHANGED <<stripVars, binding, tokVars, stmtVars, tableVars, exprVars, ty, kw, rs, sk>>

NumStatements_c ==
    /\ binding = "c"
    /\ "num_statements" \notin vs.calls
    /\ vs' = [vs EXCEPT !.calls = @ \cup {"num_statements"},
                        !.num_statements = NumStatementsRow_c(px)]
    /\ UNCHANGED <<stripVars, binding, tokVars, stmtVars, tableVars, exprVars, ty, kw, rs, sk>>

NumStatements_cpp ==
    /\ binding = "cpp"
    /\ "num_statements" \notin vs.calls
    /\ vs' = [vs EXCEPT !.calls = @ \cup {"num_statements"},
                        !.num_statements = NumStatementsRow_cpp(px)]
    /\ UNCHANGED <<stripVars, binding, tokVars, stmtVars, tableVars, exprVars, ty, kw, rs, sk>>

ValidNext ==
    \/ IsValidSql_c
    \/ IsValidSql_cpp
    \/ SqlErrorMessage_c
    \/ SqlErrorMessage_cpp
    \/ NumStatements_c
    \/ NumStatements_cpp

SpecValid == ValidInit /\ [][ValidNext]_vars

(***************************************************************************)
(* sql_strip_comments applied once to a text of LineLen characters: the    *)
(* shortest texts in which a block comment lies between two characters     *)
(* and a newline follows have 7. The texts are made of the characters of   *)
(* comments; the quotes are left to the step-by-step scans.                *)
(***************************************************************************)
LineChars == Chars \ {"'", "\""}

LineTexts == UNION {[1..k -> LineChars] : k \in 0..LineLen}

LinesInit ==
    /\ sql \in LineTexts
    /\ turn = "c"
    /\ c = StripCommentsInit
    /\ cpp = SqlStripCommentsInit
    /\ c_lits = <<>>
    /\ cpp_lits = <<>>
    /\ idem = IdemIdle
    /\ binding = "both"
    /\ TokenizeIdle
    /\ StatementsIdle
    /\ TablesIdle
    /\ ExprIdle
    /\ CapiIdle

SpecLines == LinesInit /\ [][StripOnce]_vars

\* The newlines of a text that lie outside block comments and string
\* literals: those the scanner meets while neither in_block_comment nor
\* in_string is set. No branch that consumes two characters takes a newline
\* as the second.
RECURSIVE NewlinesOutside(_, _)
NewlinesOutside(s, text) ==
    IF s.i >= Len(text) THEN 0
    ELSE (IF text[s.i + 1] = "\n" /\ ~s.in_block_comment /\ ~s.in_string
          THEN 1 ELSE 0)
         + NewlinesOutside(StripCommentsBody(s, text), text)

(***************************************************************************)
(* The end of a string literal as the quoting rule defines it: the first   *)
(* quote q at or after position p of the text that is not the first of a   *)
(* doubled pair; 0 when the text has none.                                 *)
(***************************************************************************)
RECURSIVE ClosingQuote(_, _, _)
ClosingQuote(text, p, q) ==
    IF p > Len(text) THEN 0
    ELSE IF text[p] # q THEN ClosingQuote(text, p + 1, q)
    ELSE IF p + 1 <= Len(text) /\ text[p + 1] = q
    THEN ClosingQuote(text, p + 2, q)
    ELSE p

\* What a scan has done, up to input position `upto`, with the literals it
\* opened: each literal is copied unchanged and contiguous from its opening
\* quote on, it is closed at the closing quote of the quoting rule and
\* nowhere else, and once the scan is over a literal left open has no
\* closing quote in the text.
LiteralsKept(text, lits, out, upto, finished) ==
    \A n \in 1..Len(lits) :
        LET L   == lits[n]
            end == IF L.close > 0 THEN L.close ELSE upto
            cq  == ClosingQuote(text, L.open + 1, text[L.open])
        IN  /\ SubSeq(text, L.open, end) = SubSeq(out, L.out, L.out + end - L.open)
            /\ L.close > 0 => L.close = cq
            /\ (L.close = 0 /\ finished) => cq = 0

(***************************************************************************)
(* C1: strip_comments is idempotent: stripping the result of a strip       *)
(* gives that result again, in both bindings.                              *)
(***************************************************************************)
C1_StripIdempotent ==
    idem.pass = 2 => idem.c2 = idem.c1 /\ idem.cpp2 = idem.cpp1

(***************************************************************************)
(* C2: a string literal opened by ' or " in normal state is copied to the  *)
(* output unchanged and contiguous, comment markers and doubled quotes     *)
(* included; a doubled quote does not end the literal, the first undoubled *)
(* matching quote does. Both bindings.                                     *)
(***************************************************************************)
C2_StringLiteralKept ==
    /\ LiteralsKept(sql, c_lits, c.result, c.i, c.pc = "done")
    /\ LiteralsKept(sql, cpp_lits, cpp.output, cpp.i, cpp.pc = "done")

\* Both scans are over and each has closed a literal '--' or "--".
C2_Witness ==
    /\ c.pc = "done"
    /\ cpp.pc = "done"
    /\ \E n \in 1..Len(c_lits) :
         /\ c_lits[n].close = c_lits[n].open + 3
         /\ sql[c_lits[n].open + 1] = "-"
         /\ sql[c_lits[n].open + 2] = "-"
    /\ \E n \in 1..Len(cpp_lits) :
         /\ cpp_lits[n].close = cpp_lits[n].open + 3
         /\ sql[cpp_lits[n].open + 1] = "-"
         /\ sql[cpp_lits[n].open + 2] = "-"

(***************************************************************************)
(* C3: the byte_position values tokenize_sql emits are non-decreasing and  *)
(* none exceeds the length of the text.                                    *)
(***************************************************************************)
C3_OffsetsOrdered ==
    /\ \A n \in 1..Len(tok.rows) : tok.rows[n].byte_position <= tz.len
    /\ \A n \in 1..Len(tok.rows) - 1 :
         tok.rows[n].byte_position <= tok.rows[n + 1].byte_position

(***************************************************************************)
(* C4: tokenize never fails: when Parser::Tokenize raises, no exception    *)
(* reaches the caller and the tokens bound are not an empty list but carry *)
(* an ERROR token.                                                         *)
(***************************************************************************)
C4_TokenizeTotal ==
    /\ tok.status # "exception"
    /\ (tz.raises /\ tok.status \in {"bound", "scan", "drained"})
          => \E n \in 1..Len(tok.tokens) : tok.tokens[n].type = 6

\* The scratch database opened and the connection was made.
EnvHealthy == px.open_ok /\ px.connect_ok

(***************************************************************************)
(* C5: for a syntactically invalid text parse_statements emits exactly one *)
(* row, which carries the non-empty error message and describes no         *)
(* statement; scan calls after it emit nothing more.                       *)
(***************************************************************************)
C5_InvalidTextOneErrorRow ==
    px.parse.kind = "error" =>
        /\ Len(ps.rows) <= 1
        /\ \A n \in 1..Len(ps.rows) :
             /\ ps.rows[n].error \notin {Null, ""}
             /\ EnvHealthy => ps.rows[n].error = px.parse.msg
             /\ ps.rows[n].stmt_type \notin StmtTypes
        /\ ps.status = "drained" => Len(ps.rows) = 1

\* An invalid text, the error row emitted, and every later call made.
C5_Witness ==
    /\ px.parse.kind = "error"
    /\ EnvHealthy
    /\ ps.status = "drained"
    /\ ps.extra = MaxExtraCalls
    /\ Len(ps.rows) = 1

(***************************************************************************)
(* C6: for a syntactically valid text of one statement parse_statements    *)
(* emits exactly one row, with stmt_index 0 and a NULL error.              *)
(***************************************************************************)
C6_ValidSingleStatement ==
    (/\ px.parse.kind = "ok"
     /\ Len(px.parse.stmts) = 1
     /\ EnvHealthy
     /\ ps.status = "drained")
        => /\ Len(ps.rows) = 1
           /\ ps.rows[1].stmt_index = 0
           /\ ps.rows[1].error = Null

(***************************************************************************)
(* C7: splitting is all-or-nothing: the rows of a finished scan are either *)
(* one row per statement, none with an error, or no statement row and an   *)
(* error; never statements reported next to an error.                      *)
(***************************************************************************)
C7_AllOrNothing ==
    (EnvHealthy /\ ps.status = "drained") =>
        \/ /\ Len(ps.rows) = Len(px.parse.stmts)
           /\ \A n \in 1..Len(ps.rows) : ps.rows[n].error = Null
        \/ /\ \A n \in 1..Len(ps.rows) : ps.rows[n].error # Null
           /\ Len(ps.rows) > 0

(***************************************************************************)
(* The tables a statement names, counted on the syntax tree: the bag of    *)
(* the names of the base tables and table functions reached from a table   *)
(* reference or query node through FROM clauses, joins, subqueries and CTE *)
(* definitions. The operands of a set operation are reached through none   *)
(* of these.                                                               *)
(***************************************************************************)
RECURSIVE SumBags(_)
SumBags(bags) ==
    IF Len(bags) = 0 THEN EmptyBag ELSE bags[1] (+) SumBags(Tail(bags))

RECURSIVE LeafBag(_)
LeafBag(x) ==
    CASE x.type = "BASE_TABLE" -> SetToBag({x.table_name})
      [] x.type = "TABLE_FUNCTION" -> SetToBag({x.function_name})
      [] x.type = "JOIN" -> LeafBag(x.left) (+) LeafBag(x.right)
      [] x.type = "SUBQUERY" -> LeafBag(x.node)
      [] x.type = "SELECT_NODE" ->
            LeafBag(x.from_table)
            (+) SumBags([n \in DOMAIN x.cte_map |-> LeafBag(x.cte_map[n].node)])
      [] x.type = "SET_OPERATION_NODE" ->
            SumBags([n \in DOMAIN x.cte_map |-> LeafBag(x.cte_map[n].node)])
      [] x.type = "SELECT_STATEMENT" -> LeafBag(x.node)
      [] OTHER -> EmptyBag

\* The table names of the rows emitted, with their multiplicities.
RowBag(rows) ==
    [t \in {rows[n].table_name : n \in DOMAIN rows} |->
        Cardinality({n \in DOMAIN rows : rows[n].table_name = t})]

\* Every row of a parsed query has been emitted.
TablesEmitted == pt.status = "drained" /\ pq.query.kind = "ok"

(***************************************************************************)
(* C8: for a SELECT whose FROM clause is the left-deep join chain          *)
(* t0 JOIN t1 ... JOIN tk (k >= 1) the table extractor returns exactly     *)
(* k+1 records, in the order t0 .. tk, t0 with context "FROM" and every    *)
(* later table with context "JOIN". Stated of both bindings of             *)
(* parse_tables, the scratch database opened and its query answered.       *)
(***************************************************************************)
C8_JoinChainRecords ==
    \A names \in ChainNames :
        (/\ TablesEmitted
         /\ pq.open_ok /\ pq.connect_ok /\ pq.plan.ok
         /\ pq.query.statements
              = <<SelectStatement(SelectNode(LeftDeepChain(names), <<>>))>>)
        => /\ Len(pt.rows) = Len(names)
           /\ \A n \in 1..Len(pt.rows) :
                /\ pt.rows[n].table_name = names[n]
                /\ pt.rows[n].context = IF n = 1 THEN "FROM" ELSE "JOIN"

RowCarries(rows, msg) ==
    \E n \in DOMAIN rows : \E col \in DOMAIN rows[n] : rows[n][col] = msg

C11_ParseFailureSurfaced ==
    pq.query.kind = "error" =>
        /\ pt.status \in {"drained", "exception"} =>
             /\ \A n \in DOMAIN pt.rows : pt.rows[n].table_name = Null
             /\ \/ pt.status = "exception" /\ pt.error = pq.query.msg
                \/ RowCarries(pt.rows, pq.query.msg)
        /\ tn.status \in {"returned", "exception"} =>
             /\ tn.list = <<>>
             /\ tn.status = "exception"

(***************************************************************************)
(* The function calls of a statement, counted on the syntax tree: every    *)
(* FUNCTION node of the SELECT list, the WHERE predicate and the GROUP BY  *)
(* expressions, below whatever kind of expression.                         *)
(***************************************************************************)
RECURSIVE CallBag(_)
CallBag(e) ==
    (IF e.type = "FUNCTION" THEN SetToBag({e.function_name}) ELSE EmptyBag)
    (+) SumBags([n \in DOMAIN Operands(e) |-> CallBag(Operands(e)[n])])

RECURSIVE CallSet(_)
CallSet(e) ==
    (IF e.type = "FUNCTION" THEN {e} ELSE {})
    \cup UNION {CallSet(Operands(e)[n]) : n \in DOMAIN Operands(e)}

\* The expressions of the three clauses of a query node; those of both
\* operands for a set operation.
RECURSIVE NodeClauses(_)
NodeClauses(node) ==
    IF node.type = "SELECT_NODE"
    THEN node.select_list \o <<node.where_clause>> \o node.group_expressions
    ELSE NodeClauses(node.left) \o NodeClauses(node.right)

ClauseExpressions(stmt) ==
    IF stmt.type = "SELECT_STATEMENT" THEN NodeClauses(stmt.node) ELSE <<>>

StatementCallBag(stmt) ==
    SumBags([n \in DOMAIN ClauseExpressions(stmt) |->
               CallBag(ClauseExpressions(stmt)[n])])

StatementCallSet(stmt) ==
    UNION {CallSet(ClauseExpressions(stmt)[n]) :
             n \in DOMAIN ClauseExpressions(stmt)}

FunctionRowBag(rows) ==
    [f \in {rows[n].function_name : n \in DOMAIN rows} |->
        Cardinality({n \in DOMAIN rows : rows[n].function_name = f})]

FunctionsEmitted == pf.status = "drained" /\ eq.query.kind = "ok"

(***************************************************************************)
(* C12: the function extractor yields one record for every function-call   *)
(* node of the SELECT list, the WHERE predicate and the GROUP BY           *)
(* expressions, calls nested in arguments and calls that are operands of   *)
(* other kinds of expression included. Stated of the C++ walk over one     *)
(* plain SELECT statement.                                                 *)
(***************************************************************************)
C12_EveryCallRecorded ==
    (/\ binding = "cpp"
     /\ FunctionsEmitted
     /\ Len(eq.query.statements) = 1
     /\ eq.query.statements[1].type = "SELECT_STATEMENT"
     /\ eq.query.statements[1].node.type = "SELECT_NODE")
    => FunctionRowBag(pf.rows) = StatementCallBag(eq.query.statements[1])

(***************************************************************************)
(* C13: the kind of every function record is "operator" if the call is an  *)
(* operator spelling, otherwise "aggregate" if the call is marked          *)
(* DISTINCT, otherwise "scalar". Stated of both bindings: every row        *)
(* carries the kind of a call of that name in the statement.               *)
(***************************************************************************)
KindByPrecedence(call) ==
    CASE call.is_operator -> "operator"
      [] ~call.is_operator /\ call.distinct -> "aggregate"
      [] OTHER -> "scalar"

C13_KindPrecedence ==
    FunctionsEmitted =>
        \A n \in DOMAIN pf.rows :
            /\ pf.rows[n].function_type \in {"operator", "aggregate", "scalar"}
            /\ \E m \in DOMAIN eq.query.statements :
                 \E call \in StatementCallSet(eq.query.statements[m]) :
                    /\ call.function_name = pf.rows[n].function_name
                    /\ KindByPrecedence(call) = pf.rows[n].function_type

(***************************************************************************)
(* The comparison leaves of a predicate built from AND and OR, from left   *)
(* to right.                                                               *)
(***************************************************************************)
RECURSIVE ComparisonLeaves(_)
ComparisonLeaves(e) ==
    IF e.class = "CONJUNCTION"
    THEN LET parts == [n \in DOMAIN e.children |->
                         ComparisonLeaves(e.children[n])]
             Flat[k \in 0..Len(parts)] ==
                 IF k = 0 THEN <<>> ELSE Flat[k - 1] \o parts[k]
         IN  Flat[Len(parts)]
    ELSE IF e.class = "COMPARISON" THEN <<e>>
    ELSE <<>>

WhereEmitted ==
    /\ pw.status = "drained"
    /\ eq.query.kind = "ok"
    /\ eq.open_ok /\ eq.connect_ok /\ eq.query_ok
    /\ Len(eq.query.statements) = 1
    /\ eq.query.statements[1].type = "SELECT_STATEMENT"
    /\ eq.query.statements[1].node.type = "SELECT_NODE"

(***************************************************************************)
(* C14: for a WHERE predicate built from AND/OR over comparison leaves the *)
(* where extractor emits exactly one record per leaf comparison, from left *)
(* to right, and none for a conjunction; WHERE x > 1 AND y = 2 yields      *)
(* (x, >, 1) then (y, =, 2). Stated of both bindings, the scratch database *)
(* opened and its query answered.                                          *)
(***************************************************************************)
C14_ConjunctionsFlattened ==
    WhereEmitted =>
        LET leaves == ComparisonLeaves(eq.query.statements[1].node.where_clause)
        IN  /\ Len(pw.rows) = Len(leaves)
            /\ \A n \in 1..Len(pw.rows) :
                 /\ leaves[n].left.type = "COLUMN_REF"
                      => pw.rows[n].column_name = leaves[n].left.column_name
                 /\ leaves[n].right.type = "VALUE_CONSTANT"
                      => pw.rows[n].value = leaves[n].right.value
                 /\ leaves[n].type = "COMPARE_GREATERTHAN"
                      => pw.rows[n].operator = ">"
                 /\ leaves[n].type = "COMPARE_EQUAL"
                      => pw.rows[n].operator = "="

(***************************************************************************)
(* C15: the operator of every where record is one of =, !=, <, >, <=, >=,  *)
(* IN, NOT IN, ?: a known comparison kind gives its own symbol and every   *)
(* other comparison kind gives "?". Stated of both bindings.               *)
(***************************************************************************)
OperatorSymbols == {"=", "!=", "<", ">", "<=", ">=", "IN", "NOT IN", "?"}

\* The table of the claim.
SymbolOfKind(type) ==
    CASE type = "COMPARE_EQUAL" -> "="
      [] type = "COMPARE_NOTEQUAL" -> "!="
      [] type = "COMPARE_LESSTHAN" -> "<"
      [] type = "COMPARE_GREATERTHAN" -> ">"
      [] type = "COMPARE_LESSTHANOREQUALTO" -> "<="
      [] type = "COMPARE_GREATERTHANOREQUALTO" -> ">="
      [] type = "COMPARE_IN" -> "IN"
      [] type = "COMPARE_NOT_IN" -> "NOT IN"
      [] OTHER -> "?"

C15_OperatorTable ==
    /\ \A n \in DOMAIN pw.rows : pw.rows[n].operator \in OperatorSymbols
    /\ WhereEmitted =>
         LET leaves ==
               ComparisonLeaves(eq.query.statements[1].node.where_clause)
         IN  Len(pw.rows) = Len(leaves) =>
               \A n \in 1..Len(pw.rows) :
                  pw.rows[n].operator = SymbolOfKind(leaves[n].type)

(***************************************************************************)
(* C16: parse_columns names every item of the SELECT list of the statement *)
(* asked for, one name per item in list order with col_index the 0-based   *)
(* position: the alias when the item has one; else the column name of a    *)
(* bare column reference; else the function name of a function call; else  *)
(* "col" followed by the position.                                         *)
(***************************************************************************)
NameByPrecedence(item, i) ==
    CASE item.alias # "" -> item.alias
      [] item.alias = "" /\ item.class = "COLUMN_REF" -> item.column_name
      [] item.alias = "" /\ item.class = "FUNCTION" -> item.function_name
      [] OTHER -> "col" \o ToString(i)

ColumnsEmitted ==
    /\ pc.status = "drained"
    /\ eq.query.kind = "ok"
    /\ pc.stmt_index \in 0..(Len(eq.query.statements) - 1)
    /\ eq.query.statements[pc.stmt_index + 1].type = "SELECT_STATEMENT"
    /\ eq.query.statements[pc.stmt_index + 1].node.type = "SELECT_NODE"

RECURSIVE Rendering(_)
RECURSIVE RenderedFields(_, _)
RECURSIVE RenderedValues(_, _)

\* name type, name type, ... from field n on
RenderedFields(type, n) ==
    IF n > Len(type.names) THEN ""
    ELSE (IF n > 1 THEN ", " ELSE "")
         \o type.names[n] \o " " \o Rendering(type.types[n])
         \o RenderedFields(type, n + 1)

\* 'v', 'v', ... from value n to value last
RenderedValues(values, n) ==
    IF n > Len(values) THEN ""
    ELSE (IF n > 1 THEN ", " ELSE "")
         \o "'" \o values[n] \o "'"
         \o RenderedValues(values, n + 1)

Rendering(type) ==
    CASE type.id = "DECIMAL" ->
           "DECIMAL(" \o ToString(type.width) \o "," \o ToString(type.scale)
           \o ")"
      [] type.id = "LIST" -> Rendering(type.child) \o "[]"
      [] type.id = "ARRAY" ->
           Rendering(type.child) \o "[" \o ToString(type.size) \o "]"
      [] type.id = "MAP" ->
           "MAP(" \o Rendering(type.key) \o ", " \o Rendering(type.val)
           \o ")"
      [] type.id \in {"STRUCT", "UNION"} ->
           type.id \o "(" \o RenderedFields(type, 1) \o ")"
      [] type.id = "ENUM" ->
           LET n == Len(type.values)
           IN  "ENUM("
               \o RenderedValues(SubSeq(type.values, 1,
                                        IF n < 10 THEN n ELSE 10), 1)
               \o (IF n > 10 THEN ", ... +" \o ToString(n - 10) \o " more"
                   ELSE "")
               \o ")"
      [] type.id = "VARINT" -> "UNKNOWN"
      [] OTHER -> type.id

RECURSIVE HasEnum(_)
HasEnum(type) ==
    CASE type.id = "ENUM" -> TRUE
      [] type.id \in {"LIST", "ARRAY"} -> HasEnum(type.child)
      [] type.id = "MAP" -> HasEnum(type.key) \/ HasEnum(type.val)
      [] type.id \in {"STRUCT", "UNION"} ->
           \E n \in 1..Len(type.types) : HasEnum(type.types[n])
      [] OTHER -> FALSE

TypeEmitted == ty.has_type /\ Len(ty.rows) = 1

(***************************************************************************)
(* C17: the text the type serializer gives for a type is the structural    *)
(* rendering of the type in full: DECIMAL(width,scale), child[],           *)
(* child[n], MAP(key, value), STRUCT(name type, ...) and UNION(name type,  *)
(* ...) with every field in declared order, the base name for any other    *)
(* type; no field or nested child is dropped or cut short.                 *)
(***************************************************************************)
C17_StructuralRendering ==
    (TypeEmitted /\ ~HasEnum(ty.col_type)) =>
        ty.rows[1].full_type = Rendering(ty.col_type)

(***************************************************************************)
(* C18: an ENUM of n dictionary values is rendered as ENUM('v1', 'v2',     *)
(* ...) with the first min(n, 10) values in dictionary order, followed by  *)
(* ", ... +K more" with K = n - 10 exactly when n > 10.                    *)
(***************************************************************************)
C18_EnumRendering ==
    (TypeEmitted /\ ty.col_type.id = "ENUM") =>
        ty.rows[1].full_type = Rendering(ty.col_type)

(***************************************************************************)
(* C19: is_keyword is case-insensitive: the result for an identifier is    *)
(* the result for the identifier with its ASCII letters upper-cased; it is *)
(* true for every keyword of the list in any letter case and false for an  *)
(* identifier that is no keyword.                                          *)
(***************************************************************************)
\* The identifier with its ASCII letters upper-cased.
RECURSIVE UpperCased(_)
UpperCased(text) ==
    IF text = "" THEN ""
    ELSE LET ch == SubSeq(text, 1, 1)
             up == CASE ch = "a" -> "A" [] ch = "b" -> "B" [] ch = "c" -> "C"
                     [] ch = "d" -> "D" [] ch = "e" -> "E" [] ch = "f" -> "F"
                     [] ch = "g" -> "G" [] ch = "h" -> "H" [] ch = "i" -> "I"
                     [] ch = "j" -> "J" [] ch = "k" -> "K" [] ch = "l" -> "L"
                     [] ch = "m" -> "M" [] ch = "n" -> "N" [] ch = "o" -> "O"
                     [] ch = "p" -> "P" [] ch = "q" -> "Q" [] ch = "r" -> "R"
                     [] ch = "s" -> "S" [] ch = "t" -> "T" [] ch = "u" -> "U"
                     [] ch = "v" -> "V" [] ch = "w" -> "W" [] ch = "x" -> "X"
                     [] ch = "y" -> "Y" [] ch = "z" -> "Z" [] OTHER -> ch
         IN  up \o UpperCased(SubSeq(text, 2, Len(text)))

\* The keywords of the list among the words of the model, in upper case.
ListedKeywords == {"SELECT", "AS", "FROM", "CURRENT_DATE"}

KeywordAnswered == kw.status = "returned"

C19_KeywordCaseInsensitive ==
    KeywordAnswered =>
        /\ Len(kw.result) = Len(kw.input)
        /\ \A i \in 1..Len(kw.input) :
              kw.input[i] # Null =>
                /\ \A j \in 1..Len(kw.input) :
                      (/\ kw.input[j] # Null
                       /\ kw.input[j] = UpperCased(kw.input[i]))
                      => kw.result[i] = kw.result[j]
                /\ UpperCased(kw.input[i]) \in ListedKeywords
                      => kw.result[i] = TRUE
                /\ UpperCased(kw.input[i]) = "MYIDENTIFIER"
                      => kw.result[i] = FALSE

\* is_keyword has answered true for select and for SELECT, and false for
\* myidentifier and MYIDENTIFIER.
C19_Witness ==
    /\ KeywordAnswered
    /\ \/ kw.input = <<"select", "SELECT">> /\ kw.result = <<TRUE, TRUE>>
       \/ /\ kw.input = <<"myidentifier", "MYIDENTIFIER">>
          /\ kw.result = <<FALSE, FALSE>>

(***************************************************************************)
(* C20: every handle an invocation acquires (database, connection,         *)
(* extracted statements, prepared statement, result) is released exactly   *)
(* once on every exit path, the paths where opening, connecting,           *)
(* extracting, preparing or executing fails included: once the invocation  *)
(* is over nothing is still held, and nothing is released that is not      *)
(* held.                                                                   *)
(***************************************************************************)
ResourceKinds == {"db", "conn", "stmts", "prepared", "result"}

\* How many of the first n entries of the log are `op` on `res`.
Occurrences(log, n, op, res) ==
    Cardinality({m \in 1..n : log[m].op = op /\ log[m].res = res})

C20_ReleasedExactlyOnce ==
    \A res \in ResourceKinds :
        /\ \A n \in 0..Len(rs.log) :
              Occurrences(rs.log, n, "release", res)
                 <= Occurrences(rs.log, n, "acquire", res)
        /\ rs.status = "finished" =>
              Occurrences(rs.log, Len(rs.log), "release", res)
                 = Occurrences(rs.log, Len(rs.log), "acquire", res)

(***************************************************************************)
(* C21: the category of every row tokenize_sql emits is one of the seven   *)
(* names IDENTIFIER, NUMERIC_CONSTANT, STRING_CONSTANT, OPERATOR, KEYWORD, *)
(* COMMENT, ERROR, whatever token type the tokenizer returned, in both     *)
(* bindings.                                                               *)
(***************************************************************************)
Categories ==
    {"IDENTIFIER", "NUMERIC_CONSTANT", "STRING_CONSTANT", "OPERATOR",
     "KEYWORD", "COMMENT", "ERROR"}

C21_CategoryOneOfSeven ==
    \A n \in 1..Len(tok.rows) : tok.rows[n].category \in Categories

(***************************************************************************)
(* C22: a line comment opened by -- in normal state drops both dashes and  *)
(* every character up to the next newline, copies that newline and leaves  *)
(* the scanner in normal state.                                            *)
(***************************************************************************)
LineCommentStep(before, after, out_before, out_after) ==
    /\ (~before.in_line_comment /\ after.in_line_comment)
          => /\ ~before.in_block_comment /\ ~before.in_string
             /\ sql[before.i + 1] = "-" /\ sql[before.i + 2] = "-"
             /\ after.i = before.i + 2
             /\ out_after = out_before
    /\ (before.in_line_comment /\ sql[before.i + 1] # "\n")
          => after.in_line_comment /\ out_after = out_before
    /\ (before.in_line_comment /\ sql[before.i + 1] = "\n")
          => /\ ~after.in_line_comment /\ ~after.in_block_comment
             /\ ~after.in_string
             /\ out_after = Append(out_before, "\n")

LineCommentRule ==
    [][/\ (c'.i > c.i) => LineCommentStep(c, c', c.result, c'.result)
       /\ (cpp'.i > cpp.i) => LineCommentStep(cpp, cpp', cpp.output, cpp'.output)]_vars

(***************************************************************************)
(* C22, the consequence drawn from it: the text and its stripped form have *)
(* the same number of newlines outside block comments and string literals, *)
(* in both bindings.                                                       *)
(***************************************************************************)
C22_LineStructureKept ==
    idem.pass = 1 =>
        /\ NewlinesOutside(StripCommentsInit, idem.c1)
              = NewlinesOutside(StripCommentsInit, sql)
        /\ NewlinesOutside(StripCommentsInit, idem.cpp1)
              = NewlinesOutside(StripCommentsInit, sql)

(***************************************************************************)
(* C23: a block comment opened by / * in normal state is removed with its  *)
(* opener, everything up to the first * / that begins after the opener,    *)
(* and that * /; the scan goes on in normal state behind it. An opener     *)
(* inside the comment opens nothing, and the * of the opener is not the *  *)
(* of a closer. Both bindings.                                             *)
(***************************************************************************)
\* The first position r >= p where * / begins, 0 when there is none.
FirstCloser(text, p) ==
    LET S == {r \in p..Len(text) - 1 : text[r] = "*" /\ text[r + 1] = "/"}
    IN  IF S = {} THEN 0 ELSE CHOOSE r \in S : \A r2 \in S : r <= r2

\* The first newline at or after position p, 0 when there is none.
NextNewline(text, p) ==
    LET S == {r \in p..Len(text) : text[r] = "\n"}
    IN  IF S = {} THEN 0 ELSE CHOOSE r \in S : \A r2 \in S : r <= r2

\* The text from position p on (p in normal state) with its comments taken
\* out: literals and line comments as C2 and C22 describe them.
RECURSIVE WithoutComments(_, _)
WithoutComments(text, p) ==
    IF p > Len(text) THEN <<>>
    ELSE IF text[p] \in {"'", "\""}
    THEN LET cq == ClosingQuote(text, p + 1, text[p])
         IN  IF cq = 0 THEN SubSeq(text, p, Len(text))
             ELSE SubSeq(text, p, cq) \o WithoutComments(text, cq + 1)
    ELSE IF p < Len(text) /\ text[p] = "-" /\ text[p + 1] = "-"
    THEN LET nl == NextNewline(text, p + 2)
         IN  IF nl = 0 THEN <<>> ELSE WithoutComments(text, nl)
    ELSE IF p < Len(text) /\ text[p] = "/" /\ text[p + 1] = "*"
    THEN LET cl == FirstCloser(text, p + 2)
         IN  IF cl = 0 THEN <<>> ELSE WithoutComments(text, cl + 2)
    ELSE <<text[p]>> \o WithoutComments(text, p + 1)

C23_BlockCommentRemoved ==
    idem.pass = 1 =>
        /\ idem.c1 = WithoutComments(sql, 1)
        /\ idem.cpp1 = WithoutComments(sql, 1)

\* x / * / * / x was stripped to x x: the comment did not end at its third
\* character and did end at the first closer behind the opener.
C23_Witness ==
    /\ idem.pass = 1
    /\ sql = <<"x", "/", "*", "/", "*", "/", "x">>
    /\ idem.c1 = <<"x", "x">>
    /\ idem.cpp1 = <<"x", "x">>

(***************************************************************************)
(* C24: at every step of the scan at most one of in_line_comment,          *)
(* in_block_comment and in_string is set, and string_char is ' or "        *)
(* whenever in_string is set. Both bindings.                               *)
(***************************************************************************)
FlagsSet(s) ==
    (IF s.in_line_comment THEN 1 ELSE 0)
    + (IF s.in_block_comment THEN 1 ELSE 0)
    + (IF s.in_string THEN 1 ELSE 0)

C24_StatesExclusive ==
    /\ FlagsSet(c) <= 1
    /\ FlagsSet(cpp) <= 1
    /\ c.in_string => c.string_char \in {"'", "\""}
    /\ cpp.in_string => cpp.string_char \in {"'", "\""}

\* Both scanners have been in a string, left it, and are in a comment with
\* the quote of that string still noted.
C24_Witness ==
    /\ c.in_block_comment /\ c.string_char = "'"
    /\ cpp.in_block_comment /\ cpp.string_char = "'"

(***************************************************************************)
(* C25: the scan calls of every table function emit each bound record      *)
(* exactly once, in list order, at most one vector of rows per call; the   *)
(* cursor current_idx never decreases and never exceeds the record count,  *)
(* and a call made after the last record was emitted returns no row.       *)
(***************************************************************************)
Scanning(st) == st.status \in {"scan", "drained"}

\* The rows of the bound records of each function, in list order.
TokenRecords ==
    [n \in 1..Len(tok.tokens) |->
        IF binding = "c" THEN TokenRow_c(tok, n) ELSE TokenRow_cpp(tok, n)]

KeywordRecords == [n \in 1..Len(sk.keywords) |-> [keyword |-> sk.keywords[n]]]

StatementRecords ==
    [n \in 1..Len(ps.statements) |->
        IF binding = "c" THEN ParseStatementsRow_c(ps, n - 1)
        ELSE ParseStatementsRow_cpp(ps, n - 1)]

TableRecords ==
    [n \in 1..Len(pt.tables) |->
        IF binding = "c" THEN ParseTablesRow_c(pt.tables[n])
        ELSE ParseTablesRow_cpp(pt.tables[n])]

FunctionRecords ==
    [n \in 1..Len(pf.functions) |-> ParseFunctionsRow(pf.functions[n])]

WhereRecords ==
    [n \in 1..Len(pw.conditions) |-> ParseWhereRow(pw.conditions[n])]

ColumnRecords == [n \in 1..Len(pc.col_names) |-> ParseColumnsRow(pc, n - 1)]

\* The cursor is within the records and the rows emitted so far are the
\* records before the cursor.
CursorWithin(st, records) ==
    Scanning(st) =>
        /\ st.current_idx <= Len(records)
        /\ st.rows = SubSeq(records, 1, st.current_idx)

\* One scan call, from st to st2.
CursorStep(st, st2, records) ==
    (Scanning(st) /\ Scanning(st2)) =>
        /\ st2.current_idx >= st.current_idx
        /\ Len(st2.rows) - Len(st.rows) <= VectorSize
        /\ SubSeq(st2.rows, 1, Len(st.rows)) = st.rows
        /\ st.current_idx >= Len(records) => st2.rows = st.rows

CursorsWithin(statements) ==
    /\ CursorWithin(tok, TokenRecords)
    /\ CursorWithin(sk, KeywordRecords)
    /\ CursorWithin(ps, statements)
    /\ CursorWithin(pt, TableRecords)
    /\ CursorWithin(pf, FunctionRecords)
    /\ CursorWithin(pw, WhereRecords)
    /\ CursorWithin(pc, ColumnRecords)

ScanCalls(statements) ==
    /\ CursorStep(tok, tok', TokenRecords)
    /\ CursorStep(sk, sk', KeywordRecords)
    /\ CursorStep(ps, ps', statements)
    /\ CursorStep(pt, pt', TableRecords)
    /\ CursorStep(pf, pf', FunctionRecords)
    /\ CursorStep(pw, pw', WhereRecords)
    /\ CursorStep(pc, pc', ColumnRecords)

C25_ScanCursor ==
    [][/\ CursorsWithin(StatementRecords)
       /\ CursorsWithin(StatementRecords)'
       /\ ScanCalls(StatementRecords)]_vars

(***************************************************************************)
(* C25 as amended: the rows due are the bound records, except that         *)
(* parse_statements with no statement bound and an error recorded has one  *)
(* row due, the error row, which the first call emits, leaving the cursor  *)
(* at 1. Every function emits its rows due exactly once and in order, at   *)
(* most one vector per call, with a cursor that never decreases and never  *)
(* exceeds the number of rows due, and no row after the last.              *)
(***************************************************************************)
StatementErrorBound ==
    /\ Len(ps.statements) = 0
    /\ IF binding = "c" THEN ps.error # Null ELSE ps.error # ""

StatementRowsDue ==
    IF StatementErrorBound
    THEN <<[stmt_index |-> 0,
            stmt_type |-> IF binding = "c" THEN "INVALID" ELSE Null,
            error |-> ps.error, param_count |-> 0]>>
    ELSE StatementRecords

C25_ScanCursorOrErrorRow ==
    [][/\ CursorsWithin(StatementRowsDue)
       /\ CursorsWithin(StatementRowsDue)'
       /\ ScanCalls(StatementRowsDue)]_vars

\* parse_statements emitted its error row, and the calls after it nothing.
C25_Witness ==
    /\ StatementErrorBound
    /\ ps.status = "drained"
    /\ ps.extra = MaxExtraCalls
    /\ Len(ps.rows) = 1
    /\ ps.current_idx = 1

(***************************************************************************)
(* C26: SerializeLogicalType never writes outside the buffer it is given:  *)
(* no snprintf is called with the running offset above buf_size (a pointer *)
(* past the buffer and a size buf_size - offset that wrapped around), for  *)
(* any type descriptor; so no call of parse_type_info is cut short by a    *)
(* write past a buffer.                                                    *)
(***************************************************************************)
C26_WritesInsideBuffer ==
    /\ ty.status # "aborted"
    /\ (ty.has_type /\ ty.done)
          => ~SerializeLogicalType(ty.col_type, FullTypeBufSize).ub

(***************************************************************************)
(* C27: in both scanners the output is a subsequence of the input read so  *)
(* far and never longer than it (j <= i at every write), the index i never *)
(* passes the length of the input, so the terminating write result[j] is   *)
(* inside the buffer of len + 1 bytes and no read goes past the end of the *)
(* input.                                                                  *)
(***************************************************************************)
\* a is b with some of its elements left out.
RECURSIVE IsSubsequence(_, _)
IsSubsequence(a, b) ==
    IF Len(a) = 0 THEN TRUE
    ELSE IF Len(b) = 0 THEN FALSE
    ELSE IF a[1] = b[1] THEN IsSubsequence(Tail(a), Tail(b))
    ELSE IsSubsequence(a, Tail(b))

WithinInput(i, out) ==
    /\ Len(out) <= i
    /\ i <= Len(sql)
    /\ Len(out) < Len(sql) + 1
    /\ IsSubsequence(out, SubSeq(sql, 1, i))

C27_OutputWithinInput ==
    /\ WithinInput(c.i, c.result)
    /\ WithinInput(cpp.i, cpp.output)

\* Both scans are over on a text that is one literal with a doubled quote:
\* everything was copied, the second quote of the pair by the read of
\* sql[i + 1], and j = len.
C27_Witness ==
    /\ c.pc = "done"
    /\ cpp.pc = "done"
    /\ Len(sql) >= 3
    /\ sql[1] = "'" /\ sql[2] = "'" /\ sql[3] = "'"
    /\ c.result = sql
    /\ cpp.output = sql

(***************************************************************************)
(* C28: StripComments (C) and SqlStripCommentsFunc (C++) compute the same  *)
(* function: run side by side on a text, after every iteration they have   *)
(* consumed the same characters, are in the same lexical state and have    *)
(* written the same output, though one tests for a quote first and the     *)
(* other for a comment opener first.                                       *)
(***************************************************************************)
C28_SameScan ==
    turn = "c" =>
        /\ c.pc = cpp.pc
        /\ c.i = cpp.i
        /\ c.in_line_comment = cpp.in_line_comment
        /\ c.in_block_comment = cpp.in_block_comment
        /\ c.in_string = cpp.in_string
        /\ c.string_char = cpp.string_char
        /\ c.result = cpp.output

\* Both scans are over on - ' - -: a dash that opens no comment, then a
\* literal that holds a comment opener and is left open.
C28_Witness ==
    /\ turn = "c"
    /\ c.pc = "done"
    /\ cpp.pc = "done"
    /\ sql = <<"-", "'", "-", "-">>
    /\ c.in_string /\ cpp.in_string
    /\ c.result = sql
    /\ cpp.output = sql

(***************************************************************************)
(* C29: for a non-NULL text, whatever the parser makes of it (an error, no *)
(* statement and no error, one statement or more): is_valid_sql is true    *)
(* exactly when sql_error_message is NULL, and num_statements > 0 implies  *)
(* is_valid_sql. Both bindings.                                            *)
(***************************************************************************)
C29_ValidIffNoError ==
    /\ {"is_valid_sql", "sql_error_message"} \subseteq vs.calls
          => (vs.is_valid <=> vs.error_message = Null)
    /\ {"is_valid_sql", "num_statements"} \subseteq vs.calls
          => (vs.num_statements > 0 => vs.is_valid)

(***************************************************************************)
(* C30: the byte_position of every row tokenize_sql emits is the start     *)
(* offset of its token: the conversion to the type of the output column    *)
(* neither truncates nor wraps an offset, nor makes it negative. Both      *)
(* bindings.                                                               *)
(***************************************************************************)
C30_PositionIsOffset ==
    \A n \in 1..Len(tok.rows) :
        /\ tok.rows[n].byte_position = tok.tokens[n].start
        /\ tok.rows[n].byte_position >= 0

====
